---- MODULE Spec2Model ----
(***************************************************************************)
(* The search, filtering and ranking engine of the task manager:           *)
(*   src/utils/searchUtils.js      matchers, tokenizer, scorer             *)
(*   src/hooks/useElasticSearch.js the evaluation pipeline (useMemo)       *)
(*   src/TaskManager.jsx           the debounce effect                     *)
(*                                                                         *)
(* A JavaScript string is a sequence of one-character strings.  A field of *)
(* a record is a tagged value, so that missing and non-string fields are   *)
(* values of the model: [t |-> "string" | "undefined" | "number", s].      *)
(***************************************************************************)
EXTENDS Integers, Sequences, FiniteSets, TLC

VARIABLES
    \* scoreSearchResult applied to one input
    sItem, sTerm, sFields, sOut,
    \* one evaluation of the useElasticSearch pipeline
    inp, data, out,
    \* the TaskManager debounce effect
    searchTerm, debouncedSearchTerm, debounceTimerRef, timers, now, nextId,
    mounted, changeLog, fireLog, evalLog,
    \* one call of a function of searchUtils.js, or of the suggestions memo
    fnArgs, fnOut,
    \* the search history of useElasticSearch
    searchHistory, pendingUpdates, calls, typed,
    \* the tasks, the filter (filter in the source) and the filtered tasks of
    \* useSearch
    tasks, taskFilter, filteredTasks,
    \* the TaskMailAutomation service, localStorage.taskEmailLogs, the live
    \* interval timers and the tasks of the component that uses the service
    intervalId, isRunning, cronInterval, emailLog, taskEmailLogs, intervals,
    appTasks, checkLog, sent,
    \* the suggestions of useElasticSearch
    suggestions

scoreVars == <<sItem, sTerm, sFields, sOut>>
evalVars == <<inp, data, out>>
debVars == <<searchTerm, debouncedSearchTerm, debounceTimerRef, timers, now,
             nextId, mounted, changeLog, fireLog, evalLog>>
fnVars == <<fnArgs, fnOut>>
histVars == <<searchHistory, pendingUpdates, calls, typed>>
taskVars == <<tasks, taskFilter, filteredTasks>>
mailVars == <<intervalId, isRunning, cronInterval, emailLog, taskEmailLogs,
              intervals, appTasks, checkLog, sent>>
hookVars == <<suggestions>>
vars == <<scoreVars, evalVars, debVars, fnVars, histVars, taskVars, mailVars,
          hookVars>>

-----------------------------------------------------------------------------
(* Strings *)

Str(s) == [t |-> "string", s |-> s]
Undefined == [t |-> "undefined", s |-> <<>>]
Number5 == [t |-> "number", s |-> <<>>]

UpperCase == <<"A", "B", "C", "D", "E", "F", "G", "H", "I", "J", "K", "L", "M",
               "N", "O", "P", "Q", "R", "S", "T", "U", "V", "W", "X", "Y", "Z">>
LowerCase == <<"a", "b", "c", "d", "e", "f", "g", "h", "i", "j", "k", "l", "m",
               "n", "o", "p", "q", "r", "s", "t", "u", "v", "w", "x", "y", "z">>
Digits == {"0", "1", "2", "3", "4", "5", "6", "7", "8", "9"}

Letters == {UpperCase[i] : i \in 1..26} \cup {LowerCase[i] : i \in 1..26}

\* the lower-case letter of each upper-case letter
LowerOf == [c \in {UpperCase[i] : i \in 1..26} |->
               LowerCase[CHOOSE i \in 1..26 : UpperCase[i] = c]]

\* String.prototype.toLowerCase, one character
LowerChar(c) == IF c \in DOMAIN LowerOf THEN LowerOf[c] ELSE c

toLowerCase(s) == [i \in 1..Len(s) |-> LowerChar(s[i])]

startsWith(s, p) == Len(p) <= Len(s) /\ SubSeq(s, 1, Len(p)) = p

includes(s, p) ==
    \E i \in 0..(Len(s) - Len(p)) : SubSeq(s, i + 1, i + Len(p)) = p

\* \w of a regular expression: letters, digits and the underscore
IsWordChar(c) == c \in Letters \/ c \in Digits \/ c = "_"

\* value && typeof value === 'string'
IsNonEmptyString(v) == v.t = "string" /\ v.s # <<>>

\* item[field]
FieldOf(item, field) ==
    IF field = "title" THEN item.title
    ELSE IF field = "description" THEN item.description
    ELSE Undefined

-----------------------------------------------------------------------------
(* Field matchers, src/utils/searchUtils.js *)

exactMatch(text, term) == toLowerCase(text) = toLowerCase(term)

\* a substring test that tells upper case from lower case
substringMatchCased(text, term) == includes(text, term)

substringMatch(text, term) == includes(toLowerCase(text), toLowerCase(term))

prefixMatch(text, term) == startsWith(toLowerCase(text), toLowerCase(term))

\* new RegExp(`\\b${term}\\b`, 'gi') is a syntax error when the term, pasted
\* into the pattern unescaped, opens a group it does not close.
RegExpThrows(term) == \E i \in 1..Len(term) : term[i] = "("

\* \b at offset i of text (between text[i] and text[i+1])
WordBoundary(text, i) ==
    LET before == i >= 1 /\ IsWordChar(text[i])
        after == i < Len(text) /\ IsWordChar(text[i + 1])
    IN  before # after

\* one pattern character against one text character, flag i; the unescaped
\* dot matches any character
PatternCharMatches(p, c) == p = "." \/ LowerChar(p) = LowerChar(c)

\* regex.test(text) for the pattern \b term \b, when the pattern is valid
wordMatch(text, term) ==
    \E i \in 0..(Len(text) - Len(term)) :
        /\ WordBoundary(text, i)
        /\ \A k \in 1..Len(term) : PatternCharMatches(term[k], text[i + k])
        /\ WordBoundary(text, i + Len(term))

\* termIndex after the character-by-character scan of lowerText from offset i
RECURSIVE FuzzyScan(_, _, _, _)
FuzzyScan(lowerText, lowerTerm, i, termIndex) ==
    IF i > Len(lowerText) \/ termIndex >= Len(lowerTerm) THEN termIndex
    ELSE IF lowerText[i] = lowerTerm[termIndex + 1]
         THEN FuzzyScan(lowerText, lowerTerm, i + 1, termIndex + 1)
         ELSE FuzzyScan(lowerText, lowerTerm, i + 1, termIndex)

\* fuzzyMatch reaches wordMatch, and so the RegExp constructor, only when the
\* text neither equals nor contains the term
fuzzyMatchThrows(text, term) ==
    /\ toLowerCase(text) # toLowerCase(term)
    /\ ~includes(toLowerCase(text), toLowerCase(term))
    /\ RegExpThrows(term)

\* the score of fuzzyMatch as a fraction num/den
fuzzyMatch(text, term) ==
    LET lowerText == toLowerCase(text)
        lowerTerm == toLowerCase(term)
        termIndex == FuzzyScan(lowerText, lowerTerm, 1, 0)
    IN  IF lowerText = lowerTerm THEN [num |-> 10, den |-> 10]
        ELSE IF includes(lowerText, lowerTerm) THEN [num |-> 9, den |-> 10]
        ELSE IF wordMatch(text, term) THEN [num |-> 8, den |-> 10]
        ELSE IF termIndex = Len(lowerTerm)
             THEN [num |-> termIndex, den |-> Len(lowerText)]
             ELSE [num |-> 0, den |-> 1]

KnownMatchTypes == {"exact", "substring", "word", "fuzzy", "prefix"}

\* The strategy is looked up in an object literal, so a matchType that names
\* a member of Object.prototype finds that member and not substringMatch.
\* Object(value, term) and Object.prototype.toString() return a truthy value.
InheritedTruthy == {"constructor", "toString"}

\* Object.prototype itself is not callable, and hasOwnProperty and valueOf
\* called without a receiver throw a TypeError.
InheritedRaising == {"__proto__", "hasOwnProperty", "valueOf"}

\* the call of the member found on Object.prototype raises
LookupRaises(matchType) == matchType \in InheritedRaising

\* matchFunction(value, term) for the non-fuzzy strategies; a matchType that
\* is found neither in the literal nor on Object.prototype selects
\* substringMatch
MatchFunction(matchType, text, term) ==
    IF matchType \in InheritedTruthy THEN TRUE
    ELSE IF matchType = "isPrototypeOf" THEN FALSE
    ELSE IF matchType = "exact" THEN exactMatch(text, term)
    ELSE IF matchType = "word" THEN wordMatch(text, term)
    ELSE IF matchType = "prefix" THEN prefixMatch(text, term)
    ELSE substringMatch(text, term)

NoMatch == [kind |-> "false", field |-> ""]
Raised == [kind |-> "raise", field |-> ""]

\* the field loop of multiFieldSearch from index i on: the first field that
\* matches, "false" when none does, "raise" when the RegExp constructor throws
\* before a field has matched
RECURSIVE FieldLoop(_, _, _, _, _)
FieldLoop(item, term, fields, matchType, i) ==
    IF i > Len(fields) THEN NoMatch
    ELSE LET value == FieldOf(item, fields[i])
         IN  IF ~IsNonEmptyString(value)
             THEN FieldLoop(item, term, fields, matchType, i + 1)
             ELSE IF matchType = "fuzzy"
             THEN IF fuzzyMatchThrows(value.s, term) THEN Raised
                  ELSE LET score == fuzzyMatch(value.s, term)
                       IN  IF 2 * score.num > score.den
                           THEN [kind |-> "match", field |-> fields[i]]
                           ELSE FieldLoop(item, term, fields, matchType, i + 1)
             ELSE IF LookupRaises(matchType) THEN Raised
             ELSE IF matchType = "word" /\ RegExpThrows(term) THEN Raised
             ELSE IF MatchFunction(matchType, value.s, term)
                  THEN [kind |-> "match", field |-> fields[i]]
                  ELSE FieldLoop(item, term, fields, matchType, i + 1)

multiFieldSearch(item, term, fields, matchType) ==
    IF term = <<>> \/ fields = <<>> THEN NoMatch
    ELSE FieldLoop(item, term, fields, matchType, 1)

-----------------------------------------------------------------------------
(* Tokenizer, src/utils/searchUtils.js *)

\* a scan that splits at every space, inside quotes too
RECURSIVE ParseScanNoQuotes(_, _, _, _, _)
ParseScanNoQuotes(query, i, tokens, current, inQuotes) ==
    IF i > Len(query)
    THEN IF current # <<>> THEN Append(tokens, current) ELSE tokens
    ELSE IF query[i] = "\""
         THEN ParseScanNoQuotes(query, i + 1, tokens, current, ~inQuotes)
    ELSE IF query[i] = " "
         THEN IF current # <<>>
              THEN ParseScanNoQuotes(query, i + 1, Append(tokens, current), <<>>,
                                     inQuotes)
              ELSE ParseScanNoQuotes(query, i + 1, tokens, current, inQuotes)
    ELSE ParseScanNoQuotes(query, i + 1, tokens, Append(current, query[i]),
                           inQuotes)

\* the scan of parseSearchQuery from index i on, with the tokens pushed so
\* far, the accumulating token and the quote flag
RECURSIVE ParseScan(_, _, _, _, _)
ParseScan(query, i, tokens, current, inQuotes) ==
    IF i > Len(query)
    THEN IF current # <<>> THEN Append(tokens, current) ELSE tokens
    ELSE IF query[i] = "\""
         THEN ParseScan(query, i + 1, tokens, current, ~inQuotes)
    ELSE IF query[i] = " " /\ ~inQuotes
         THEN IF current # <<>>
              THEN ParseScan(query, i + 1, Append(tokens, current), <<>>, inQuotes)
              ELSE ParseScan(query, i + 1, tokens, current, inQuotes)
    ELSE ParseScan(query, i + 1, tokens, Append(current, query[i]), inQuotes)

parseSearchQuery(query) ==
    SelectSeq(ParseScan(query, 1, <<>>, <<>>, FALSE), LAMBDA token : Len(token) > 0)

-----------------------------------------------------------------------------
(* Scorer, src/utils/searchUtils.js *)

\* FieldScore with the word tier tried before the contains tier
FieldScoreWordFirst(item, term, field) ==
    LET value == FieldOf(item, field)
        lowerTerm == toLowerCase(term)
        lowerValue == toLowerCase(value.s)
    IN  IF ~IsNonEmptyString(value) THEN 0
        ELSE IF lowerValue = lowerTerm THEN 100
        ELSE IF startsWith(lowerValue, lowerTerm) THEN 75
        ELSE IF RegExpThrows(term) THEN -1
        ELSE IF wordMatch(value.s, term) THEN 25
        ELSE IF includes(lowerValue, lowerTerm) THEN 50
        ELSE 0

\* the contribution of one field to the score; -1 when the field reaches
\* wordMatch with a term the RegExp constructor rejects
FieldScore(item, term, field) ==
    LET value == FieldOf(item, field)
        lowerTerm == toLowerCase(term)
        lowerValue == toLowerCase(value.s)
    IN  IF ~IsNonEmptyString(value) THEN 0
        ELSE IF lowerValue = lowerTerm THEN 100
        ELSE IF startsWith(lowerValue, lowerTerm) THEN 75
        ELSE IF includes(lowerValue, lowerTerm) THEN 50
        ELSE IF RegExpThrows(term) THEN -1
        ELSE IF wordMatch(value.s, term) THEN 25
        ELSE 0

RECURSIVE ScoreLoop(_, _, _, _, _)
ScoreLoop(item, term, searchFields, i, score) ==
    IF i > Len(searchFields) THEN [raised |-> FALSE, score |-> score]
    ELSE LET c == FieldScore(item, term, searchFields[i])
         IN  IF c < 0 THEN [raised |-> TRUE, score |-> 0]
             ELSE ScoreLoop(item, term, searchFields, i + 1, score + c)

scoreSearchResult(item, term, searchFields) ==
    IF term = <<>> THEN [raised |-> FALSE, score |-> 0]
    ELSE ScoreLoop(item, term, searchFields, 1, 0)

-----------------------------------------------------------------------------
(* Array helpers *)

Min(a, b) == IF a <= b THEN a ELSE b
Max(a, b) == IF a >= b THEN a ELSE b

\* Array.prototype.slice(0, end)
Slice0(seq, end) ==
    IF end >= 0 THEN SubSeq(seq, 1, Min(end, Len(seq)))
    ELSE SubSeq(seq, 1, Max(Len(seq) + end, 0))

\* Array.prototype.sort with a consistent comparator that orders by an
\* integer key, ascending: the sort is stable, so elements of equal key keep
\* their order.  key[i] is the key of seq[i].
StableSortByKey(seq, key) ==
    LET pos(i) == 1 + Cardinality({j \in 1..Len(seq) :
                        key[j] < key[i] \/ (key[j] = key[i] /\ j < i)})
    IN  [p \in 1..Len(seq) |-> seq[CHOOSE i \in 1..Len(seq) : pos(i) = p]]

LetterIndex == [c \in {LowerCase[i] : i \in 1..26} |->
                   CHOOSE i \in 1..26 : LowerCase[i] = c]

\* the primary weight of a character in the collation of localeCompare:
\* white space, then punctuation, then digits, then letters without case
CharWeight(c) ==
    IF c = " " THEN 1
    ELSE IF c = "_" THEN 2
    ELSE IF c = "." THEN 3
    ELSE IF c = "\"" THEN 4
    ELSE IF c = "(" THEN 5
    ELSE IF c \in Digits THEN 10
    ELSE 20 + LetterIndex[LowerChar(c)]

IsUpper(c) == c \in DOMAIN LowerOf

\* the first index at which the weights (byCase FALSE) or the cases (byCase
\* TRUE) of a and b differ, 0 when there is none within the shorter one
FirstDiff(a, b, byCase) ==
    LET n == Min(Len(a), Len(b))
        d == {i \in 1..n : IF byCase THEN IsUpper(a[i]) # IsUpper(b[i])
                           ELSE CharWeight(a[i]) # CharWeight(b[i])}
    IN  IF d = {} THEN 0 ELSE CHOOSE i \in d : \A j \in d : i <= j

\* a.localeCompare(b) < 0 for two strings: letters compare without case
\* first, and a lower-case letter orders before its upper-case letter
LocaleLess(a, b) ==
    LET p == FirstDiff(a, b, FALSE)
        t == FirstDiff(a, b, TRUE)
    IN  IF p # 0 THEN CharWeight(a[p]) < CharWeight(b[p])
        ELSE IF Len(a) # Len(b) THEN Len(a) < Len(b)
        ELSE t # 0 /\ ~IsUpper(a[t])

-----------------------------------------------------------------------------
(* The evaluation pipeline, src/hooks/useElasticSearch.js, useMemo *)

\* Filter values: [t |-> "undefined" | "boolean" | "string", b, s]
BoolValue(b) == [t |-> "boolean", b |-> b, s |-> ""]
StringValue(s) == [t |-> "string", b |-> FALSE, s |-> s]
NoValue == [t |-> "undefined", b |-> FALSE, s |-> ""]

Truthy(value) ==
    \/ value.t = "boolean" /\ value.b
    \/ value.t = "string" /\ value.s # ""

\* new Date(x).toDateString(); a missing date is the empty string here
DateString(x) == IF x = "" THEN "Invalid Date" ELSE x

\* a callback that applies a status filter only when its value is truthy
FilterAcceptsTruthy(item, filter) ==
    IF filter.type = "status" /\ Truthy(filter.value)
    THEN item.completed = filter.value.b
    ELSE IF filter.type = "priority" /\ Truthy(filter.value)
    THEN filter.value.t = "string" /\ item.priority = filter.value.s
    ELSE TRUE

\* the callback of appliedFilters.every
FilterAccepts(item, filter) ==
    IF filter.type = "status" /\ filter.value.t # "undefined"
    THEN filter.value.t = "boolean" /\ item.completed = filter.value.b
    ELSE IF filter.type = "priority" /\ Truthy(filter.value)
    THEN filter.value.t = "string" /\ item.priority = filter.value.s
    ELSE IF filter.type = "dueDate" /\ Truthy(filter.value)
    THEN filter.value.t = "string"
         /\ DateString(item.dueDate) = DateString(filter.value.s)
    ELSE TRUE

\* searchTokens.every(token => multiFieldSearch(item, token, ...)) from token
\* i on: every stops at the first token that does not match
RECURSIVE EveryToken(_, _, _, _, _)
EveryToken(item, tokens, searchFields, matchType, i) ==
    IF i > Len(tokens) THEN "true"
    ELSE LET r == multiFieldSearch(item, tokens[i], searchFields, matchType)
         IN  IF r.kind = "raise" THEN "raise"
             ELSE IF r.kind = "false" THEN "false"
             ELSE EveryToken(item, tokens, searchFields, matchType, i + 1)

\* filtered.filter(item => searchTokens.every(...)): the records kept, and
\* whether a callback raised
TextFilter(items, tokens, searchFields, matchType) ==
    LET verdict == [i \in 1..Len(items) |->
                        EveryToken(items[i], tokens, searchFields, matchType, 1)]
    IN  [raised |-> \E i \in 1..Len(items) : verdict[i] = "raise",
         kept |-> SelectSeq([i \in 1..Len(items) |-> [item |-> items[i], v |-> verdict[i]]],
                            LAMBDA e : e.v = "true")]

\* filtered = data: the caller's array itself, not a copy
SpreadAlias(array) == [items |-> array, isCallerArray |-> TRUE]

\* [...data]: a new array holding the caller's records
SpreadCopy(array) == [items |-> array, isCallerArray |-> FALSE]

\* ({...item, _searchScore: score}): a new record carrying the score; the
\* caller's record is left as it is
ScoredCopy(item, score) ==
    [copy |-> [item EXCEPT !.scored = TRUE, !.searchScore = score],
     original |-> item]

\* a sort by score that is not stable: records of equal score change places
SortByScoreUnstable(items) ==
    LET n == Len(items)
        reversed == [i \in 1..n |-> items[n + 1 - i]]
    IN  StableSortByKey(reversed, [i \in 1..n |-> 0 - reversed[i].searchScore])

\* filtered.sort((a, b) => b._searchScore - a._searchScore)
SortByScore(items) ==
    StableSortByKey(items, [i \in 1..Len(items) |-> 0 - items[i].searchScore])

\* a sort by date that puts the oldest record first
SortByOldest(items) ==
    StableSortByKey(items, [i \in 1..Len(items) |-> items[i].createdAt])

\* filtered.sort((a, b) => new Date(b.createdAt) - new Date(a.createdAt))
SortByRecent(items) ==
    StableSortByKey(items, [i \in 1..Len(items) |-> 0 - items[i].createdAt])

\* a.title.localeCompare(b.title) is a TypeError when a.title is no string
BadTitle(item) == item.title.t # "string"

\* the title as the argument of localeCompare: a missing title reads
\* "undefined", which orders after every title of the model
TitleLess(a, b) ==
    IF BadTitle(a) THEN FALSE
    ELSE IF BadTitle(b) THEN TRUE
    ELSE LocaleLess(a.title.s, b.title.s)

\* filtered.sort((a, b) => a.title.localeCompare(b.title)), when no call of
\* the comparator raises
SortByName(items) ==
    StableSortByKey(items,
        [i \in 1..Len(items) |->
            Cardinality({j \in 1..Len(items) : TitleLess(items[j], items[i])})])

\* Which records the engine passes as a is its own choice.  The comparator is
\* not called for fewer than two records; two records without title are
\* compared with each other, and one such record is a or b as the engine
\* chooses (aFirst).
SortByNameRaises(items, aFirst) ==
    LET bad == {i \in 1..Len(items) : BadTitle(items[i])}
    IN  /\ Len(items) >= 2
        /\ \/ Cardinality(bad) >= 2
           \/ Cardinality(bad) = 1 /\ aFirst

NoResult ==
    [kind |-> "none", results |-> <<>>, resultCount |-> 0, searchTime |-> 0,
     searched |-> FALSE, termsCount |-> 0, tokensUsed |-> <<>>]

\* the render throws: no result set is published
RaisedResult ==
    [kind |-> "raise", results |-> <<>>, resultCount |-> 0, searchTime |-> 0,
     searched |-> FALSE, termsCount |-> 0, tokensUsed |-> <<>>]

\* the pipeline without its early return
ShortCircuitsNever(in) == FALSE

\* if (!debouncedSearchTerm && appliedFilters.length === 0)
ShortCircuits(in) == in.term = <<>> /\ in.appliedFilters = <<>>

\* a short circuit that reports a search
ShortCircuitSearched(d) ==
    [kind |-> "ok", results |-> d, resultCount |-> Len(d), searchTime |-> 0,
     searched |-> TRUE, termsCount |-> 0, tokensUsed |-> <<>>]

\* the result set of the short circuit: the caller's array itself
ShortCircuit(d) ==
    [kind |-> "ok", results |-> d, resultCount |-> Len(d), searchTime |-> 0,
     searched |-> FALSE, termsCount |-> 0, tokensUsed |-> <<>>]

\* The pipeline after a stage: whether it raised, filtered (items), whether
\* filtered is the caller's array, the caller's array (data) and the tokens.
Stage(raised, items, isCallerArray, d, tokens) ==
    [raised |-> raised, items |-> items, isCallerArray |-> isCallerArray,
     data |-> d, tokens |-> tokens]

\* the records the text filter keeps
KeptItems(text) == [e \in 1..Len(text.kept) |-> text.kept[e].item]

\* the calls of scoreSearchResult made by the map
ScoreAll(kept, in) ==
    [i \in 1..Len(kept) |-> scoreSearchResult(kept[i], in.term, in.searchFields)]

\* filtered.map(item => ({...item, _searchScore: ...}))
ScoredCopies(kept, scores) ==
    [i \in 1..Len(kept) |-> ScoredCopy(kept[i], scores[i].score)]

\* the caller's records after the map
DataAfterMap(d, scored) ==
    [k \in 1..Len(d) |->
        IF \E i \in 1..Len(scored) : scored[i].original.id = d[k].id
        THEN scored[CHOOSE i \in 1..Len(scored) :
                        scored[i].original.id = d[k].id].original
        ELSE d[k]]

\* the map and the sort by score
RankStage(d, tokens, scores, scored) ==
    IF \E i \in 1..Len(scores) : scores[i].raised
    THEN Stage(TRUE, <<>>, FALSE, d, tokens)
    ELSE Stage(FALSE, SortByScore([i \in 1..Len(scored) |-> scored[i].copy]),
               FALSE, DataAfterMap(d, scored), tokens)

\* after the text filter: score and rank when rankResults is on
AfterTextFilter(d, in, tokens, text) ==
    IF text.raised THEN Stage(TRUE, <<>>, FALSE, d, tokens)
    ELSE IF ~in.rankResults THEN Stage(FALSE, KeptItems(text), FALSE, d, tokens)
    ELSE RankStage(d, tokens, ScoreAll(KeptItems(text), in),
                   ScoredCopies(KeptItems(text), ScoreAll(KeptItems(text), in)))

\* Copy, tokenize, text filter, score and rank.
TextStage(d, in) ==
    IF ~(in.term # <<>> /\ in.searchFields # <<>>)
    THEN Stage(FALSE, SpreadCopy(d).items, SpreadCopy(d).isCallerArray, d,
               parseSearchQuery(in.term))
    ELSE AfterTextFilter(d, in, parseSearchQuery(in.term),
            TextFilter(SpreadCopy(d).items, parseSearchQuery(in.term),
                       in.searchFields, in.matchType))

\* if (appliedFilters.length > 0) filtered = filtered.filter(...)
FilterStage(st, in) ==
    IF st.raised \/ in.appliedFilters = <<>> THEN st
    ELSE [st EXCEPT
            !.items = SelectSeq(st.items, LAMBDA item :
                        \A f \in 1..Len(in.appliedFilters) :
                            FilterAccepts(item, in.appliedFilters[f])),
            !.isCallerArray = FALSE]

\* the sort by name or by date, in place
SortStage(st, in, aFirst) ==
    LET byName == in.sortBy = "name"
                  /\ \E f \in 1..Len(in.searchFields) : in.searchFields[f] = "title"
        byRecent == ~byName /\ in.sortBy = "recent"
        sorted == IF byName THEN SortByName(st.items) ELSE SortByRecent(st.items)
    IN  IF st.raised \/ ~(byName \/ byRecent) THEN st
        ELSE IF byName /\ SortByNameRaises(st.items, aFirst)
        THEN [st EXCEPT !.raised = TRUE, !.items = <<>>]
        ELSE [st EXCEPT !.items = sorted,
                        !.data = IF st.isCallerArray THEN sorted ELSE st.data]

\* if (maxResults && filtered.length > maxResults)
\*   filtered = filtered.slice(0, maxResults)
LimitStage(items, maxResults) ==
    IF ~maxResults.isNull /\ maxResults.k # 0 /\ Len(items) > maxResults.k
    THEN Slice0(items, maxResults.k)
    ELSE items

\* the result set returned after the stages; elapsed is endTime - startTime
Publish(st, in, elapsed) ==
    IF st.raised THEN [out |-> RaisedResult, data |-> st.data]
    ELSE LET limited == LimitStage(st.items, in.maxResults)
         IN  [out |-> [kind |-> "ok", results |-> limited,
                       resultCount |-> Len(limited), searchTime |-> elapsed,
                       searched |-> TRUE, termsCount |-> Len(st.tokens),
                       tokensUsed |-> st.tokens],
              data |-> st.data]

\* One run of the useMemo callback on the caller's array d with the inputs in:
\* the result set published (or the raise) and the caller's array afterwards.
\* aFirst is the engine's choice in the sort by name.
Evaluate(d, in, elapsed, aFirst) ==
    IF ShortCircuits(in) THEN [out |-> ShortCircuit(d), data |-> d]
    ELSE Publish(SortStage(FilterStage(TextStage(d, in), in), in, aFirst),
                 in, elapsed)

-----------------------------------------------------------------------------
(* Inputs *)

MaxLen == 2

RECURSIVE StringsOfLen(_, _)
StringsOfLen(chars, n) ==
    IF n = 0 THEN {<<>>}
    ELSE {Append(s, c) : s \in StringsOfLen(chars, n - 1), c \in chars}

StringsUpTo(chars, n) == UNION {StringsOfLen(chars, k) : k \in 0..n}

task == <<"t", "a", "s", "k">>
tasked == <<"t", "a", "s", "k", "e", "d">>
myTaskToday == <<"m", "y", " ", "t", "a", "s", "k", " ", "t", "o", "d", "a", "y">>

\* queries: every string of at most MaxLen characters over letters of both
\* cases, the space and two characters that are special in a pattern, and the
\* query of the examples
ScoreTerms == StringsUpTo({"a", "A", "b", " ", ".", "("}, MaxLen) \cup {task}

\* field values: short strings, the examples, a missing field and a number
TitleValues ==
    {Str(s) : s \in StringsUpTo({"a", "b", " "}, MaxLen)}
        \cup {Str(task), Str(tasked), Str(myTaskToday), Undefined, Number5}

DescriptionValues == {Undefined, Str(<<"a", "b">>), Str(<<"b", " ", "a">>)}

ScoreItems == [title : TitleValues, description : DescriptionValues]

FieldLists ==
    {<<>>, <<"title">>, <<"title", "description">>, <<"description", "title">>}

-----------------------------------------------------------------------------
(* Inputs of the pipeline *)

MaxRecords == 2
MaxElapsed == 1

Task(title, description, completed, priority, createdAt, dueDate) ==
    [id |-> 0, title |-> title, description |-> description,
     completed |-> completed, priority |-> priority, createdAt |-> createdAt,
     dueDate |-> dueDate, scored |-> FALSE, searchScore |-> 0]

ab == <<"a", "b">>
Ab == <<"A", "b">>
a_b == <<"a", " ", "b">>
b_a == <<"b", " ", "a">>
paren_a == <<"(", "a">>
quoted_b_a == <<"\"", "b", " ", "a", "\"">>

RecordPool ==
    { Task(Str(ab), Undefined, FALSE, "high", 2, "2026-01-01"),
      Task(Str(paren_a), Str(Ab), TRUE, "low", 3, "2026-01-02"),
      Task(Undefined, Str(b_a), FALSE, "low", 1, "") }

\* the caller's collections: at most MaxRecords distinct records of the pool
\* in any order, ids by position
DataSets ==
    UNION {{[i \in 1..n |-> [s[i] EXCEPT !.id = i]] :
                s \in {t \in [1..n -> RecordPool] :
                         \A i, j \in 1..n : i # j => t[i] # t[j]}}
           : n \in 0..MaxRecords}

\* debounced terms: empty, one token, two tokens, a quoted phrase, blank, and
\* a term the RegExp constructor rejects
EvalTerms == { <<>>, <<"a">>, <<"b">>, a_b, quoted_b_a, <<" ">>, paren_a }

MatchTypes == KnownMatchTypes \cup {"regex"}

SortBys == {"relevance", "name", "recent"}

Null == [isNull |-> TRUE, k |-> 0]
Limit(k) == [isNull |-> FALSE, k |-> k]
MaxResultsValues == {Null, Limit(0), Limit(1)}

StatusFilter(b) == [type |-> "status", value |-> BoolValue(b)]
PriorityFilter(p) == [type |-> "priority", value |-> StringValue(p)]
FilterLists == {<<>>, <<StatusFilter(FALSE)>>}

EvalFieldLists == {<<>>, <<"title">>, <<"title", "description">>}

\* the text search under every match type, without filters and limit
TextInputs ==
    [term : EvalTerms, searchFields : EvalFieldLists, matchType : MatchTypes,
     rankResults : BOOLEAN, maxResults : {Null}, appliedFilters : {<<>>},
     sortBy : {"relevance"}]

\* the short circuit and the filter-only evaluation under every configuration
EmptyTermInputs ==
    [term : {<<>>}, searchFields : EvalFieldLists, matchType : MatchTypes,
     rankResults : BOOLEAN, maxResults : MaxResultsValues,
     appliedFilters : FilterLists, sortBy : SortBys]

\* filters, sort and limit after a text search
PostInputs ==
    [term : EvalTerms, searchFields : EvalFieldLists,
     matchType : {"substring", "fuzzy"}, rankResults : BOOLEAN,
     maxResults : MaxResultsValues, appliedFilters : FilterLists,
     sortBy : SortBys]

Inputs == TextInputs \cup EmptyTermInputs \cup PostInputs

-----------------------------------------------------------------------------
(* scoreSearchResult applied to one input *)

NotScored == [done |-> FALSE, raised |-> FALSE, score |-> 0]

EvalIdle == inp = <<>> /\ data = <<>> /\ out = NoResult

NotCalled == [done |-> FALSE]

FnIdle == fnArgs = <<>> /\ fnOut = NotCalled

HistIdle ==
    searchHistory = <<>> /\ pendingUpdates = <<>> /\ calls = 0 /\ typed = 0

TaskIdle == tasks = <<>> /\ taskFilter = "all" /\ filteredTasks = <<>>

MailIdle ==
    /\ intervalId = 0
    /\ isRunning = FALSE
    /\ cronInterval = 0
    /\ emailLog = <<>>
    /\ taskEmailLogs = <<>>
    /\ intervals = {}
    /\ appTasks = <<>>
    /\ checkLog = <<>>
    /\ sent = 0

HookIdle == suggestions = <<>>

DebIdle ==
    /\ searchTerm = <<>>
    /\ debouncedSearchTerm = <<>>
    /\ debounceTimerRef = 0
    /\ timers = {}
    /\ now = 0
    /\ nextId = 1
    /\ mounted = FALSE
    /\ changeLog = <<>>
    /\ fireLog = <<>>
    /\ evalLog = <<>>

InitScore ==
    /\ sItem \in ScoreItems
    /\ sTerm \in ScoreTerms
    /\ sFields \in FieldLists
    /\ sOut = NotScored
    /\ EvalIdle
    /\ DebIdle
    /\ FnIdle
    /\ HistIdle
    /\ TaskIdle
    /\ MailIdle
    /\ HookIdle

Score ==
    /\ ~sOut.done
    /\ sOut' = [done |-> TRUE,
                raised |-> scoreSearchResult(sItem, sTerm, sFields).raised,
                score |-> scoreSearchResult(sItem, sTerm, sFields).score]
    /\ UNCHANGED <<sItem, sTerm, sFields, evalVars, debVars, fnVars, histVars,
                   taskVars,
                   mailVars, hookVars>>

NextScore == Score

SpecScore == InitScore /\ [][NextScore]_vars

-----------------------------------------------------------------------------
(* One evaluation of the pipeline *)

ScoreIdle ==
    /\ sItem = [title |-> Undefined, description |-> Undefined]
    /\ sTerm = <<>>
    /\ sFields = <<>>
    /\ sOut = NotScored

InitEval ==
    /\ inp \in Inputs
    /\ data \in DataSets
    /\ out = NoResult
    /\ ScoreIdle
    /\ DebIdle
    /\ FnIdle
    /\ HistIdle
    /\ TaskIdle
    /\ MailIdle
    /\ HookIdle

\* the render that runs the useMemo callback
EvaluateStep ==
    /\ out.kind = "none"
    /\ \E elapsed \in 0..MaxElapsed, aFirst \in BOOLEAN :
        /\ out' = Evaluate(data, inp, elapsed, aFirst).out
        /\ data' = Evaluate(data, inp, elapsed, aFirst).data
    /\ UNCHANGED <<inp, scoreVars, debVars, fnVars, histVars,
                   taskVars,
                   mailVars, hookVars>>

NextEval == EvaluateStep

SpecEval == InitEval /\ [][NextEval]_vars

-----------------------------------------------------------------------------
(* The debounce effect, src/TaskManager.jsx *)

\* the delay of setTimeout, 300 ms, in ticks of 150 ms
Delay == 2
MaxChanges == 3
MaxTime == 6

\* the raw values typed into the search box
RawTerms == {<<>>, <<"a">>, <<"A">>, ab}

\* A live timer: its id, the searchTerm its callback closes over, the time at
\* which it is due, and the number of raw changes made when it was set.
\* changeLog keeps the raw changes (value, time, whether a timer was pending
\* when it arrived), fireLog the callbacks run, evalLog the renders with a new
\* debounced term.
Timer(id, value, due, seq) == [id |-> id, value |-> value, due |-> due, seq |-> seq]

\* a clearTimeout that cancels nothing
ClearNothing(ts, id) == ts

\* clearTimeout(id): no effect when id is null (0) or no longer live
ClearTimeout(ts, id) == {t \in ts : t.id # id}

\* an effect that sets its timer and leaves the earlier one live
RunEffectLeaky(ts, ref, id, value, at, seq) ==
    ts \cup {Timer(id, value, at + Delay, seq)}

\* an effect whose timer is due at once
RunEffectAtOnce(ts, ref, id, value, at, seq) ==
    ClearTimeout(ClearTimeout(ts, ref), ref) \cup {Timer(id, value, at, seq)}

\* One run of the effect after searchTerm changed: the cleanup of the run
\* before it, then the body, which cancels the timer of the ref and sets a
\* new one.
RunEffect(ts, ref, id, value, at, seq) ==
    ClearTimeout(ClearTimeout(ts, ref), ref) \cup {Timer(id, value, at + Delay, seq)}

\* an effect that returns no cleanup
NoCleanup(ts, ref) == ts

\* the cleanup on unmount: clearTimeout(debounceTimerRef.current)
UnmountCleanup(ts, ref) == ClearTimeout(ts, ref)

\* The component after its first render: both terms empty, and the effect has
\* run once and set the first timer.
InitDebounce ==
    /\ searchTerm = <<>>
    /\ debouncedSearchTerm = <<>>
    /\ debounceTimerRef = 1
    /\ timers = RunEffect({}, 0, 1, <<>>, 0, 0)
    /\ now = 0
    /\ nextId = 2
    /\ mounted = TRUE
    /\ changeLog = <<>>
    /\ fireLog = <<>>
    /\ evalLog = <<>>
    /\ ScoreIdle
    /\ EvalIdle
    /\ FnIdle
    /\ HistIdle
    /\ TaskIdle
    /\ MailIdle
    /\ HookIdle

\* setSearchTerm(v) with a new value: the component renders again and the
\* effect runs again
SetSearchTerm(v) ==
    /\ mounted
    /\ v # searchTerm
    /\ Len(changeLog) < MaxChanges
    /\ searchTerm' = v
    /\ timers' = RunEffect(timers, debounceTimerRef, nextId, v, now,
                           Len(changeLog) + 1)
    /\ debounceTimerRef' = nextId
    /\ nextId' = nextId + 1
    /\ changeLog' = Append(changeLog,
            [value |-> v, at |-> now, pending |-> timers # {}])
    /\ UNCHANGED <<debouncedSearchTerm, now, mounted, fireLog, evalLog>>

\* A timer that is due runs its callback: setDebouncedSearchTerm of the
\* lower-cased term it closed over.  A state update after unmount is dropped;
\* an update to the same value renders nothing, so triggers no evaluation.
TimerFire(t) ==
    /\ t \in timers
    /\ t.due <= now
    /\ timers' = timers \ {t}
    /\ debouncedSearchTerm' =
            IF mounted THEN toLowerCase(t.value) ELSE debouncedSearchTerm
    /\ fireLog' = Append(fireLog,
            [value |-> toLowerCase(t.value), at |-> now, seq |-> t.seq,
             changes |-> Len(changeLog), mounted |-> mounted,
             before |-> debouncedSearchTerm])
    /\ evalLog' =
            IF mounted /\ toLowerCase(t.value) # debouncedSearchTerm
            THEN Append(evalLog, [term |-> toLowerCase(t.value), seq |-> t.seq])
            ELSE evalLog
    /\ UNCHANGED <<searchTerm, debounceTimerRef, now, nextId, mounted, changeLog>>

\* time passes; a timer that is due runs before it does
Tick ==
    /\ now < MaxTime
    /\ \A t \in timers : t.due > now
    /\ now' = now + 1
    /\ UNCHANGED <<searchTerm, debouncedSearchTerm, debounceTimerRef, timers,
                   nextId, mounted, changeLog, fireLog, evalLog>>

\* the component unmounts: the cleanup of the effect runs
Unmount ==
    /\ mounted
    /\ mounted' = FALSE
    /\ timers' = UnmountCleanup(timers, debounceTimerRef)
    /\ UNCHANGED <<searchTerm, debouncedSearchTerm, debounceTimerRef, now,
                   nextId, changeLog, fireLog, evalLog>>

NextDebounce ==
    \/ \E v \in RawTerms :
            SetSearchTerm(v) /\ UNCHANGED <<scoreVars, evalVars, fnVars, histVars,
                                            taskVars,
                                            mailVars, hookVars>>
    \/ \E t \in timers :
            TimerFire(t) /\ UNCHANGED <<scoreVars, evalVars, fnVars, histVars,
                                        taskVars,
                                        mailVars, hookVars>>
    \/ Tick /\ UNCHANGED <<scoreVars, evalVars, fnVars, histVars,
                           taskVars,
                           mailVars, hookVars>>
    \/ Unmount /\ UNCHANGED <<scoreVars, evalVars, fnVars, histVars,
                              taskVars,
                              mailVars, hookVars>>

SpecDebounce == InitDebounce /\ [][NextDebounce]_vars

-----------------------------------------------------------------------------
(* Properties of the Scorer, checked under SpecScore *)

\* the query, as characters, occurs in the text between two word boundaries,
\* upper and lower case alike
OccursAsWholeWord(text, term) ==
    \E i \in 0..(Len(text) - Len(term)) :
        /\ WordBoundary(text, i)
        /\ toLowerCase(SubSeq(text, i + 1, i + Len(term))) = toLowerCase(term)
        /\ WordBoundary(text, i + Len(term))

\* the contribution of one field as the tiers are stated
TierOf(item, term, field) ==
    LET value == FieldOf(item, field)
    IN  IF ~IsNonEmptyString(value) THEN 0
        ELSE IF toLowerCase(value.s) = toLowerCase(term) THEN 100
        ELSE IF startsWith(toLowerCase(value.s), toLowerCase(term)) THEN 75
        ELSE IF includes(toLowerCase(value.s), toLowerCase(term)) THEN 50
        ELSE IF OccursAsWholeWord(value.s, term) THEN 25
        ELSE 0

RECURSIVE TierSum(_, _, _, _)
TierSum(item, term, fields, i) ==
    IF i > Len(fields) THEN 0
    ELSE TierOf(item, term, fields[i]) + TierSum(item, term, fields, i + 1)

\* C7: for a non-empty query scoreSearchResult returns the sum over the search
\* fields of the tier of each field (100 equal, else 75 starts with, else 50
\* contains, else 25 whole word, else 0; 0 for a missing or non-string field),
\* so an integer between 0 and 100 * |searchFields|; an empty query scores 0.
C7_ScorerTiers ==
    sOut.done =>
        /\ ~sOut.raised
        /\ sOut.score \in 0..(100 * Len(sFields))
        /\ sTerm = <<>> => sOut.score = 0
        /\ sTerm # <<>> => sOut.score = TierSum(sItem, sTerm, sFields, 1)

\* the title is scored alone, is a non-empty string, and contains the query as
\* a whole word without being equal to it or starting with it
WholeWordInside ==
    /\ sOut.done
    /\ sFields = <<"title">>
    /\ sTerm # <<>>
    /\ IsNonEmptyString(sItem.title)
    /\ OccursAsWholeWord(sItem.title.s, sTerm)
    /\ ~startsWith(toLowerCase(sItem.title.s), toLowerCase(sTerm))

ScoredTitle(title, term) ==
    sOut.done /\ sFields = <<"title">> /\ sItem.title = Str(title) /\ sTerm = term

\* C8 as stated: a field that contains the query as a whole word, neither
\* equal to it nor starting with it, contributes 25; 'my task today' scores 25
\* for 'task', 'task' scores 100 and 'tasked' scores 75.
C8_WholeWordScores25 ==
    /\ WholeWordInside => ~sOut.raised /\ sOut.score = 25
    /\ ScoredTitle(myTaskToday, task) => sOut.score = 25
    /\ ScoredTitle(task, task) => sOut.score = 100
    /\ ScoredTitle(tasked, task) => sOut.score = 75

\* C8 amended: a field that contains the query, as a whole word or not,
\* without starting with it contributes 50, because the contains tier is tried
\* before the word tier; a contribution of 25 is only given to a value that
\* does not contain the query; 'my task today' scores 50 for 'task', 'task'
\* scores 100 and 'tasked' scores 75.
C8_WholeWordScores50 ==
    /\ WholeWordInside => ~sOut.raised /\ sOut.score = 50
    /\ (sOut.done /\ sFields = <<"title">> /\ sOut.score = 25) =>
            ~includes(toLowerCase(sItem.title.s), toLowerCase(sTerm))
    /\ ScoredTitle(myTaskToday, task) => sOut.score = 50
    /\ ScoredTitle(task, task) => sOut.score = 100
    /\ ScoredTitle(tasked, task) => sOut.score = 75

\* the example of the whole-word tier has been scored
C8_Witness ==
    /\ ScoredTitle(myTaskToday, task)
    /\ WholeWordInside
    /\ sOut.score = 50

-----------------------------------------------------------------------------
(* Properties of one evaluation, checked under SpecEval *)

Evaluated == out.kind # "none"

\* the record of position i of the input collection is in results
InResults(i) == \E j \in 1..Len(out.results) : out.results[j].id = i

\* multiFieldSearch is truthy for every token of the debounced term
MatchesEveryToken(item) ==
    LET tokens == parseSearchQuery(inp.term)
    IN  \A t \in 1..Len(tokens) :
            multiFieldSearch(item, tokens[t], inp.searchFields,
                             inp.matchType).kind = "match"

\* C1: with a non-empty debounced term, no filters and no maxResults, under
\* every match type and every list of search fields, a record is in results
\* if and only if every token of the term matches it in one of the fields.
C1_ConjunctiveMatching ==
    (/\ Evaluated
     /\ inp.term # <<>>
     /\ inp.appliedFilters = <<>>
     /\ inp.maxResults = Null
     /\ inp.sortBy = "relevance") =>
        /\ out.kind = "ok"
        /\ \A i \in 1..Len(data) : InResults(i) <=> MatchesEveryToken(data[i])

\* the result set of the same evaluation without maxResults
Unbounded(aFirst) ==
    Evaluate(data, [inp EXCEPT !.maxResults = Null], 0, aFirst).out

\* C5: with maxResults = k >= 0 the evaluation returns min(k, n) records,
\* where n is the resultCount of the same evaluation without maxResults, and
\* they are the first records of that evaluation's results.
C5_MaxResultsMonotone ==
    (out.kind = "ok" /\ ~inp.maxResults.isNull) =>
        \E aFirst \in BOOLEAN :
            LET all == Unbounded(aFirst)
            IN  /\ all.kind = "ok"
                /\ out.resultCount = Min(inp.maxResults.k, all.resultCount)
                /\ out.results = SubSeq(all.results, 1, out.resultCount)

\* C6: with an empty debounced term and no filters, whatever sortBy,
\* rankResults and matchType are, results is the input collection in its
\* order, no record of it carries a score, resultCount is its length,
\* searchTime is 0, searched is false and termsCount is 0.
C6_EmptyQueryShortCircuit ==
    (Evaluated /\ inp.term = <<>> /\ inp.appliedFilters = <<>>) =>
        /\ out.kind = "ok"
        /\ out.results = data
        /\ \A i \in 1..Len(out.results) : ~out.results[i].scored
        /\ out.resultCount = Len(data)
        /\ out.searchTime = 0
        /\ ~out.searched
        /\ out.termsCount = 0

\* an empty query over two records, with a sort, a limit and ranking asked for
C6_Witness ==
    /\ out.kind = "ok"
    /\ inp.term = <<>>
    /\ inp.appliedFilters = <<>>
    /\ inp.sortBy = "recent"
    /\ inp.maxResults = Limit(1)
    /\ inp.rankResults
    /\ Len(data) = 2
    /\ data[1].createdAt < data[2].createdAt

\* C9: with rankResults on, a non-empty debounced term and sortBy
\* 'relevance', results are in non-increasing order of score and results of
\* equal score are in the order they have in the input collection.
C9_StableRanking ==
    (out.kind = "ok" /\ inp.rankResults /\ inp.term # <<>>
        /\ inp.sortBy = "relevance") =>
        \A i, j \in 1..Len(out.results) :
            i < j =>
                /\ out.results[i].searchScore >= out.results[j].searchScore
                /\ out.results[i].searchScore = out.results[j].searchScore
                        => out.results[i].id < out.results[j].id

\* two ranked results of equal score, and two of different score in the
\* opposite of their input order
C9_Witness ==
    /\ out.kind = "ok"
    /\ inp.rankResults
    /\ inp.term # <<>>
    /\ inp.sortBy = "relevance"
    /\ Len(out.results) = 2
    /\ out.results[1].scored
    /\ \/ out.results[1].searchScore = out.results[2].searchScore
       \/ out.results[1].id > out.results[2].id

\* C10: an evaluation leaves the input collection as it was: its length, the
\* order of its records and their fields, none of which gains a score.
C10_DataNotMutated == [][data' = data]_vars

\* results carry scores and are in another order than the input collection,
\* whose records carry none
C10_Witness ==
    /\ out.kind = "ok"
    /\ Len(out.results) = 2
    /\ out.results[1].scored
    /\ out.results[1].id = 2
    /\ Len(data) = 2
    /\ \A i \in 1..Len(data) : data[i].id = i /\ ~data[i].scored

-----------------------------------------------------------------------------
(* Properties of the debounce, checked under SpecDebounce *)

\* Raw change 0 is the mount, which sets the first timer for the empty term.
Changes == 0..Len(changeLog)
ChangeAt(k) == IF k = 0 THEN 0 ELSE changeLog[k].at
ChangeValue(k) == IF k = 0 THEN <<>> ELSE changeLog[k].value

\* change k + 1 arrived before the timer of change k ran, that is less than
\* the delay after it: the two are of one burst
Superseded(k) == k < Len(changeLog) /\ changeLog[k + 1].pending

\* k is the last change of a burst that is over: the component is mounted,
\* and the timer of change k is no longer pending
BurstOver(k) ==
    /\ mounted
    /\ ~Superseded(k)
    /\ ~\E t \in timers : t.seq = k

FiresOf(k) == {f \in 1..Len(fireLog) : fireLog[f].seq = k}
EvaluationsOf(k) == {e \in 1..Len(evalLog) : evalLog[e].seq = k}

C3_OneTimerPending ==
    /\ Cardinality(timers) <= 1
    /\ \A t \in timers :
            /\ t.id = debounceTimerRef
            /\ t.seq = Len(changeLog)
            /\ t.value = searchTerm
    /\ \A f \in 1..Len(fireLog) : fireLog[f].seq = fireLog[f].changes
    /\ \A f, g \in 1..Len(fireLog) : f < g => fireLog[f].seq < fireLog[g].seq
    /\ mounted /\ fireLog # <<>> =>
            debouncedSearchTerm = fireLog[Len(fireLog)].value

\* a raw change has replaced a pending timer, the new timer has run, and a
\* later change has set the one timer now pending
C3_Witness ==
    /\ Len(changeLog) >= 3
    /\ changeLog[2].pending
    /\ FiresOf(2) # {}
    /\ Cardinality(timers) = 1

\* C4: once the component is unmounted no timer is pending and no callback
\* runs, whatever raw changes came before the unmount.
C4_TeardownCancels ==
    /\ ~mounted => timers = {}
    /\ \A f \in 1..Len(fireLog) : fireLog[f].mounted

\* the component was unmounted while the timer of its last raw change was
\* pending, and the time at which that timer was due has passed
C4_Witness ==
    /\ ~mounted
    /\ Len(changeLog) >= 1
    /\ FiresOf(Len(changeLog)) = {}
    /\ now > ChangeAt(Len(changeLog)) + Delay

-----------------------------------------------------------------------------
(* parseSearchQuery applied to one query *)

MaxQueryLen == 5

urgentFixBugNow ==
    <<"u", "r", "g", "e", "n", "t", " ", "\"", "f", "i", "x", " ", "b", "u",
      "g", "\"", " ", "n", "o", "w">>
urgent == <<"u", "r", "g", "e", "n", "t">>
fixBug == <<"f", "i", "x", " ", "b", "u", "g">>
nowWord == <<"n", "o", "w">>
spacedA == <<" ", " ", "a", " ", " ">>

\* queries: every string of at most MaxQueryLen characters over two letters,
\* the space and the quote, and the examples
Queries ==
    StringsUpTo({"a", "b", " ", "\""}, MaxQueryLen)
        \cup {urgentFixBugNow, spacedA}

InitParse ==
    /\ fnArgs \in [query : Queries]
    /\ fnOut = NotCalled
    /\ ScoreIdle
    /\ EvalIdle
    /\ DebIdle
    /\ HistIdle
    /\ TaskIdle
    /\ MailIdle
    /\ HookIdle

Parse ==
    /\ ~fnOut.done
    /\ fnOut' = [done |-> TRUE, tokens |-> parseSearchQuery(fnArgs.query)]
    /\ UNCHANGED <<fnArgs, scoreVars, evalVars, debVars, histVars,
                   taskVars,
                   mailVars, hookVars>>

NextParse == Parse

SpecParse == InitParse /\ [][NextParse]_vars

-----------------------------------------------------------------------------
(* Properties of the tokenizer, checked under SpecParse *)

\* One token for each run of characters between spaces outside quotes and one
\* for each quoted span: a quote ends the unit before it, and the closing
\* quote ends the span, whatever its contents.
RECURSIVE UnitScan(_, _, _, _, _)
UnitScan(query, i, tokens, current, inQuotes) ==
    IF i > Len(query)
    THEN IF current # <<>> THEN Append(tokens, current) ELSE tokens
    ELSE IF query[i] = "\"" /\ inQuotes
         THEN UnitScan(query, i + 1, Append(tokens, current), <<>>, FALSE)
    ELSE IF query[i] = "\"" \/ (query[i] = " " /\ ~inQuotes)
         THEN UnitScan(query, i + 1,
                       IF current # <<>> THEN Append(tokens, current) ELSE tokens,
                       <<>>, query[i] = "\"")
    ELSE UnitScan(query, i + 1, tokens, Append(current, query[i]), inQuotes)

UnitTokens(query) == UnitScan(query, 1, <<>>, <<>>, FALSE)

QuotesBefore(query, i) == Cardinality({j \in 1..(i - 1) : query[j] = "\""})

\* the quotes pair up
Balanced(query) == QuotesBefore(query, Len(query) + 1) % 2 = 0

\* every quoted span is non-empty, starts after a space or at the start of
\* the query, and ends before a space or at its end
SpansApart(query) ==
    \A i \in 1..Len(query) :
        query[i] = "\"" =>
            IF QuotesBefore(query, i) % 2 = 0
            THEN /\ i = 1 \/ query[i - 1] = " "
                 /\ i < Len(query) => query[i + 1] # "\""
            ELSE i = Len(query) \/ query[i + 1] = " "

Parsed(query) == fnOut.done /\ fnArgs.query = query

\* C11 as stated: a query with balanced quotes gives, from left to right, one
\* token for each space-delimited unit outside quotes and one token for each
\* quoted span, the quotes stripped.
C11_TokenPerUnit ==
    (fnOut.done /\ Balanced(fnArgs.query)) =>
        fnOut.tokens = UnitTokens(fnArgs.query)

\* C11 amended: the same, for queries whose quoted spans are non-empty and
\* set apart from the words by spaces; no token is empty; 'urgent "fix bug"
\* now' gives three tokens, the empty query none and '  a  ' gives one.
C11_TokenPerUnitApart ==
    /\ (fnOut.done /\ Balanced(fnArgs.query) /\ SpansApart(fnArgs.query)) =>
            fnOut.tokens = UnitTokens(fnArgs.query)
    /\ fnOut.done => \A t \in 1..Len(fnOut.tokens) : fnOut.tokens[t] # <<>>
    /\ Parsed(urgentFixBugNow) => fnOut.tokens = <<urgent, fixBug, nowWord>>
    /\ Parsed(<<>>) => fnOut.tokens = <<>>
    /\ Parsed(spacedA) => fnOut.tokens = << <<"a">> >>

\* a word, a quoted phrase of two words and a word have been tokenized
C11_Witness ==
    /\ Parsed(urgentFixBugNow)
    /\ SpansApart(fnArgs.query)
    /\ Len(fnOut.tokens) = 3

-----------------------------------------------------------------------------
(* The search history, src/hooks/useElasticSearch.js *)

\* prev.slice(0, 9)
HistoryKeep == 9
\* the number of distinct terms searched for
MaxTerms == 11
\* the number of calls of addToSearchHistory and clearHistory in one event
\* handler, before the hook renders again
MaxCalls == 2

HistoryTerm(k) == <<LowerCase[k]>>

InHistory(history, term) == \E i \in 1..Len(history) : history[i] = term

\* a new term: the terms of the pool are searched for in the order of the
\* pool, typed counts the ones handed to addToSearchHistory so far
FreshTerms == IF typed < MaxTerms THEN {HistoryTerm(typed + 1)} ELSE {}

\* the terms typed: the empty term and a new term
TypedTerms == {<<>>} \cup FreshTerms

\* an updater that keeps one entry more
AddUpdaterKeepsTen(term, prev) == <<term>> \o Slice0(prev, HistoryKeep + 1)

\* (prev) => [debouncedSearchTerm, ...prev.slice(0, 9)]
AddUpdater(term, prev) == <<term>> \o Slice0(prev, HistoryKeep)

\* the state after the queued updates, applied in the order of the calls
RECURSIVE ApplyUpdates(_, _, _)
ApplyUpdates(history, updates, i) ==
    IF i > Len(updates) THEN history
    ELSE IF updates[i].op = "clear" THEN ApplyUpdates(<<>>, updates, i + 1)
    ELSE ApplyUpdates(AddUpdater(updates[i].term, history), updates, i + 1)

InitHistory ==
    /\ searchHistory = <<>>
    /\ pendingUpdates = <<>>
    /\ calls = 0
    /\ typed = 0
    /\ ScoreIdle
    /\ EvalIdle
    /\ DebIdle
    /\ FnIdle
    /\ TaskIdle
    /\ MailIdle
    /\ HookIdle

\* setSearchTerm(v) in an event of its own, once the debounce has published
\* the term typed before
HistorySetSearchTerm(v) ==
    /\ calls = 0
    /\ debouncedSearchTerm = searchTerm
    /\ v # searchTerm
    /\ searchTerm' = v
    /\ UNCHANGED <<debouncedSearchTerm, histVars>>

\* the debounce publishes the raw term
HistoryDebounceFires ==
    /\ calls = 0
    /\ debouncedSearchTerm # searchTerm
    /\ debouncedSearchTerm' = searchTerm
    /\ UNCHANGED <<searchTerm, histVars>>

\* addToSearchHistory(), with the debounced term and the history of the last
\* render
AddToSearchHistory ==
    /\ calls < MaxCalls
    /\ calls' = calls + 1
    /\ pendingUpdates' =
            IF debouncedSearchTerm # <<>>
                /\ ~InHistory(searchHistory, debouncedSearchTerm)
            THEN Append(pendingUpdates,
                        [op |-> "add", term |-> debouncedSearchTerm])
            ELSE pendingUpdates
    /\ typed' = IF debouncedSearchTerm \in FreshTerms THEN typed + 1 ELSE typed
    /\ UNCHANGED <<searchTerm, debouncedSearchTerm, searchHistory>>

\* clearHistory()
ClearHistory ==
    /\ calls < MaxCalls
    /\ calls' = calls + 1
    /\ pendingUpdates' = Append(pendingUpdates, [op |-> "clear", term |-> <<>>])
    /\ UNCHANGED <<searchTerm, debouncedSearchTerm, searchHistory, typed>>

\* the event handler returns and the hook renders with the queued updates
HistoryRender ==
    /\ calls > 0
    /\ searchHistory' = ApplyUpdates(searchHistory, pendingUpdates, 1)
    /\ pendingUpdates' = <<>>
    /\ calls' = 0
    /\ UNCHANGED <<searchTerm, debouncedSearchTerm, typed>>

HistoryFrame ==
    UNCHANGED <<scoreVars, evalVars, fnVars, taskVars, mailVars, hookVars,
                debounceTimerRef,
                timers, now, nextId, mounted, changeLog, fireLog, evalLog>>

NextHistory ==
    \/ \E v \in TypedTerms : HistorySetSearchTerm(v) /\ HistoryFrame
    \/ HistoryDebounceFires /\ HistoryFrame
    \/ AddToSearchHistory /\ HistoryFrame
    \/ ClearHistory /\ HistoryFrame
    \/ HistoryRender /\ HistoryFrame

SpecHistory == InitHistory /\ [][NextHistory]_vars

-----------------------------------------------------------------------------
(* Claims C12 and C13: the search history *)

MaxHistory == HistoryKeep + 1

\* the terms of the queued additions, the last call first
RECURSIVE AddedTerms(_, _)
AddedTerms(updates, i) ==
    IF i = 0 \/ updates[i].op = "clear" THEN <<>>
    ELSE <<updates[i].term>> \o AddedTerms(updates, i - 1)

\* a render that applies at least one queued update
RenderApplies == pendingUpdates # <<>> /\ pendingUpdates' = <<>>

IsPrefix(s, t) == Len(s) <= Len(t) /\ s = SubSeq(t, 1, Len(s))

\* after a render whose last update is an addition, the added term is first
\* and the entries behind the additions are the head of the history before
NewestFirst ==
    RenderApplies /\ pendingUpdates[Len(pendingUpdates)].op = "add"
        => LET added == AddedTerms(pendingUpdates, Len(pendingUpdates))
               before == IF Len(added) = Len(pendingUpdates)
                         THEN searchHistory ELSE <<>>
               kept == Len(searchHistory') - Len(added)
           IN  /\ searchHistory'[1] =
                      pendingUpdates[Len(pendingUpdates)].term
               /\ kept >= 0
               /\ SubSeq(searchHistory', 1, Len(added)) = added
               /\ IsPrefix(SubSeq(searchHistory', Len(added) + 1,
                                  Len(searchHistory')), before)
               /\ kept = Min(Len(before), MaxHistory - Len(added))

\* C12: after any sequence of setSearchTerm, debounce firings,
\* addToSearchHistory and clearHistory, searchHistory has at most 10 entries
\* and never the empty string, and the term of the most recent effective
\* addToSearchHistory is at index 0 with the older entries behind it in the
\* order they had, the entries beyond the tenth dropped.
C12_HistoryBound ==
    /\ [](Len(searchHistory) <= MaxHistory)
    /\ [](~InHistory(searchHistory, <<>>))
    /\ [][NewestFirst]_vars

\* an eleventh term was added to a history of ten, and the oldest one is gone
C12_Witness ==
    /\ Len(searchHistory) = MaxHistory
    /\ searchHistory[1] = HistoryTerm(MaxHistory + 1)
    /\ searchHistory[MaxHistory] = HistoryTerm(2)

\* C13: in every reachable state searchHistory holds no string twice, also
\* when addToSearchHistory is called more than once for the same term before
\* the hook renders again.
C13_HistoryDistinct ==
    \A i, j \in 1..Len(searchHistory) :
        i # j => searchHistory[i] # searchHistory[j]

-----------------------------------------------------------------------------
(* The suggestions, src/hooks/useElasticSearch.js *)

maxSuggestions == 5

\* a Set that adds every value, present or not
SetAddAlways(set, value) == Append(set, value)

\* Set.prototype.add: the set as the sequence of its values in insertion order
SetAdd(set, value) ==
    IF \E k \in 1..Len(set) : set[k] = value THEN set ELSE Append(set, value)

\* fieldValue.toLowerCase().includes(searchTerm.toLowerCase()), on a non-empty
\* string
Suggests(fieldValue, term) ==
    /\ IsNonEmptyString(fieldValue)
    /\ includes(toLowerCase(fieldValue.s), toLowerCase(term))

\* for (const item of data), from item i on
RECURSIVE SuggestItemLoop(_, _, _, _, _)
SuggestItemLoop(field, d, term, i, uniqueMatches) ==
    IF i > Len(d) THEN uniqueMatches
    ELSE IF Len(uniqueMatches) >= maxSuggestions THEN uniqueMatches
    ELSE SuggestItemLoop(field, d, term, i + 1,
            IF Suggests(FieldOf(d[i], field), term)
            THEN SetAdd(uniqueMatches, FieldOf(d[i], field).s)
            ELSE uniqueMatches)

\* for (const field of searchFields), from field f on
RECURSIVE SuggestFieldLoop(_, _, _, _, _)
SuggestFieldLoop(fields, d, term, f, uniqueMatches) ==
    IF f > Len(fields) THEN uniqueMatches
    ELSE IF Len(SuggestItemLoop(fields[f], d, term, 1, uniqueMatches))
                >= maxSuggestions
         THEN SuggestItemLoop(fields[f], d, term, 1, uniqueMatches)
         ELSE SuggestFieldLoop(fields, d, term, f + 1,
                  SuggestItemLoop(fields[f], d, term, 1, uniqueMatches))

\* the suggestions memo
Suggestions(term, d, fields) ==
    IF term = <<>> \/ Len(term) < 2 THEN <<>>
    ELSE Slice0(SuggestFieldLoop(fields, d, term, 1, <<>>), maxSuggestions)

MaxSuggestRecords == 3

Entry(title, description) == [title |-> title, description |-> description]

SuggestRecords ==
    { Entry(Str(ab), Str(Ab)),
      Entry(Str(<<"a", "B">>), Str(<<"A", "B">>)),
      Entry(Str(<<"c", "a", "b">>), Str(<<"a", "b", "c">>)),
      Entry(Str(ab), Str(<<"b", "a">>)),
      Entry(Undefined, Number5),
      Entry(Str(<<>>), Str(<<"A", "B", "C">>)) }

SuggestData ==
    UNION { [1..n -> SuggestRecords] : n \in 0..MaxSuggestRecords }

SuggestTerms == {<<>>, <<"a">>, ab, <<"A", "B">>, <<"b", "c">>}

SuggestFieldLists ==
    { <<>>, <<"title">>, <<"title", "description">>,
      <<"description", "title">> }

InitSuggest ==
    /\ fnArgs \in [searchTerm : SuggestTerms, data : SuggestData,
                   searchFields : SuggestFieldLists]
    /\ fnOut = NotCalled
    /\ ScoreIdle
    /\ EvalIdle
    /\ DebIdle
    /\ HistIdle
    /\ TaskIdle
    /\ MailIdle
    /\ HookIdle

\* one evaluation of the memo
Suggest ==
    /\ ~fnOut.done
    /\ fnOut' = [done |-> TRUE,
                 suggestions |-> Suggestions(fnArgs.searchTerm, fnArgs.data,
                                             fnArgs.searchFields)]
    /\ UNCHANGED <<fnArgs, scoreVars, evalVars, debVars, histVars,
                   taskVars,
                   mailVars, hookVars>>

NextSuggest == Suggest

SpecSuggest == InitSuggest /\ [][NextSuggest]_vars

-----------------------------------------------------------------------------
(* Claim C14: the suggestions, checked under SpecSuggest *)

\* the values of the cells that contain the term, the fields in order and the
\* records in order within each field; cell c is record ((c - 1) % n) + 1 of
\* field ((c - 1) \div n) + 1
CellValue(d, fields, c) ==
    FieldOf(d[((c - 1) % Len(d)) + 1], fields[((c - 1) \div Len(d)) + 1])

ContainsTerm(value, term) ==
    /\ value.t = "string"
    /\ value.s # <<>>
    /\ \E i \in 0..(Len(value.s) - Len(term)) :
           \A k \in 1..Len(term) :
               LowerChar(value.s[i + k]) = LowerChar(term[k])

\* the cells that are the first to hold their value among the cells that
\* contain the term
FirstEncounters(d, fields, term) ==
    { c \in 1..(Len(d) * Len(fields)) :
        /\ ContainsTerm(CellValue(d, fields, c), term)
        /\ \A b \in 1..(c - 1) :
               CellValue(d, fields, b) # CellValue(d, fields, c) }

\* the number of first encounters before cell c
Rank(d, fields, term, c) ==
    Cardinality({ b \in FirstEncounters(d, fields, term) : b < c })

Suggested == fnOut.done /\ Len(fnArgs.searchTerm) >= 2

\* C14: suggestions is empty when the raw term has fewer than 2 characters;
\* otherwise it holds at most 5 pairwise different strings, each the value of
\* a search field of a record that contains the raw term whatever the case,
\* and it is the first 5 different such values in the order of iterating
\* the fields and the records within each field.
C14_FirstFiveDistinct ==
    fnOut.done =>
        LET term == fnArgs.searchTerm
            d == fnArgs.data
            fields == fnArgs.searchFields
            first == FirstEncounters(d, fields, term)
            result == fnOut.suggestions
        IN  IF Len(term) < 2 THEN result = <<>>
            ELSE /\ Len(result) = Min(Cardinality(first), maxSuggestions)
                 /\ \A i, j \in 1..Len(result) :
                        i # j => result[i] # result[j]
                 /\ \A c \in first :
                        Rank(d, fields, term, c) < maxSuggestions
                            => result[Rank(d, fields, term, c) + 1]
                                   = CellValue(d, fields, c).s

\* more than five different values contain the term and five are suggested
C14_Witness ==
    /\ Suggested
    /\ Cardinality(FirstEncounters(fnArgs.data, fnArgs.searchFields,
                                   fnArgs.searchTerm)) > maxSuggestions
    /\ Len(fnOut.suggestions) = maxSuggestions

-----------------------------------------------------------------------------
(* Claim C15, checked under SpecEval *)

\* C15: whatever fields the records lack and whatever the term, the match
\* type, the filters and the sort order, an evaluation of the pipeline ends
\* with a result set and never raises.
C15_NeverRaises == Evaluated => out.kind = "ok"

-----------------------------------------------------------------------------
(* Evaluations with a negative maxResults *)

NegativeLimits == {Limit(-1), Limit(-2)}

NegativeLimitInputs ==
    [term : {<<>>, <<"a">>, <<"b">>}, searchFields : EvalFieldLists,
     matchType : {"substring"}, rankResults : BOOLEAN,
     maxResults : NegativeLimits, appliedFilters : FilterLists,
     sortBy : SortBys]

InitLimit ==
    /\ inp \in NegativeLimitInputs
    /\ data \in DataSets
    /\ out = NoResult
    /\ ScoreIdle
    /\ DebIdle
    /\ FnIdle
    /\ HistIdle
    /\ TaskIdle
    /\ MailIdle
    /\ HookIdle

NextLimit == EvaluateStep

SpecLimit == InitLimit /\ [][NextLimit]_vars

\* C16: an evaluation configured with a negative maxResults ends in an error
\* and publishes no result set.
C16_NegativeLimitFailsFast ==
    Evaluated /\ inp.maxResults.k < 0 => out.kind = "raised"

-----------------------------------------------------------------------------
(* fuzzyMatch applied to one text and one term *)

MaxTextLen == 3
MaxTermLen == 2

FuzzyTexts == StringsUpTo({"a", "A", "b", ".", " "}, MaxTextLen)
FuzzyTerms == StringsUpTo({"a", "B", ".", "("}, MaxTermLen)

InitFuzzy ==
    /\ fnArgs \in [text : FuzzyTexts, term : FuzzyTerms]
    /\ fnOut = NotCalled
    /\ ScoreIdle
    /\ EvalIdle
    /\ DebIdle
    /\ HistIdle
    /\ TaskIdle
    /\ MailIdle
    /\ HookIdle

Fuzzy ==
    /\ ~fnOut.done
    /\ fnOut' = IF fuzzyMatchThrows(fnArgs.text, fnArgs.term)
                THEN [done |-> TRUE, raised |-> TRUE,
                      score |-> [num |-> 0, den |-> 1]]
                ELSE [done |-> TRUE, raised |-> FALSE,
                      score |-> fuzzyMatch(fnArgs.text, fnArgs.term)]
    /\ UNCHANGED <<fnArgs, scoreVars, evalVars, debVars, histVars,
                   taskVars,
                   mailVars, hookVars>>

NextFuzzy == Fuzzy

SpecFuzzy == InitFuzzy /\ [][NextFuzzy]_vars

\* the characters of s from position i on occur in t from position j on, in
\* the same order
RECURSIVE OccursInOrder(_, _, _, _)
OccursInOrder(s, t, i, j) ==
    IF i > Len(s) THEN TRUE
    ELSE IF j > Len(t) THEN FALSE
    ELSE IF s[i] = t[j] THEN OccursInOrder(s, t, i + 1, j + 1)
    ELSE OccursInOrder(s, t, i, j + 1)

\* C17: a fuzzy score above 0 implies that the characters of the term, in
\* lower case, occur in the text as a subsequence in the same order, and the
\* score lies between 0 and 1.
C17_FuzzySubsequence ==
    fnOut.done /\ ~fnOut.raised =>
        /\ fnOut.score.num >= 0
        /\ fnOut.score.num <= fnOut.score.den
        /\ fnOut.score.num > 0 =>
               OccursInOrder(toLowerCase(fnArgs.term),
                             toLowerCase(fnArgs.text), 1, 1)

-----------------------------------------------------------------------------
(* Claim C18, checked under SpecEval *)

\* C18: in every published result set statistics.searched is false if and
\* only if the debounced term is empty and no filter is applied; with a term
\* or a filter searched is true, also when results is empty, termsCount is the
\* number of tokens of the debounced term and resultCount is the length of
\* results.
C18_SearchedStatistics ==
    out.kind = "ok" =>
        /\ ~out.searched <=> (inp.term = <<>> /\ inp.appliedFilters = <<>>)
        /\ out.resultCount = Len(out.results)
        /\ out.searched =>
               out.termsCount = Len(parseSearchQuery(inp.term))

\* a search for two tokens that no record matches
C18_Witness ==
    /\ out.kind = "ok"
    /\ out.searched
    /\ data # <<>>
    /\ out.results = <<>>
    /\ out.termsCount = 2

-----------------------------------------------------------------------------
(* Evaluations with several filters *)

MaxFilters == 2

FilterPool ==
    { StatusFilter(FALSE), StatusFilter(TRUE), PriorityFilter("low"),
      PriorityFilter("") }

FilterSequences == UNION { [1..n -> FilterPool] : n \in 0..MaxFilters }

FilterInputs ==
    [term : {<<>>, <<"a">>, <<"b">>}, searchFields : EvalFieldLists,
     matchType : {"substring"}, rankResults : BOOLEAN, maxResults : {Null},
     appliedFilters : FilterSequences, sortBy : SortBys]

InitFilter ==
    /\ inp \in FilterInputs
    /\ data \in DataSets
    /\ out = NoResult
    /\ ScoreIdle
    /\ DebIdle
    /\ FnIdle
    /\ HistIdle
    /\ TaskIdle
    /\ MailIdle
    /\ HookIdle

NextFilter == EvaluateStep

SpecFilter == InitFilter /\ [][NextFilter]_vars

-----------------------------------------------------------------------------
(* Claim C19, checked under SpecFilter *)

\* the filter carries a value: a status filter whose value is defined, a
\* priority filter whose value is a non-empty string
CarriesValue(filter) ==
    \/ filter.type = "status" /\ filter.value.t = "boolean"
    \/ filter.type = "priority" /\ filter.value.t = "string"
           /\ filter.value.s # ""

Satisfies(item, filter) ==
    IF filter.type = "status" THEN item.completed = filter.value.b
    ELSE item.priority = filter.value.s

SatisfiesAll(item) ==
    \A f \in 1..Len(inp.appliedFilters) :
        CarriesValue(inp.appliedFilters[f])
            => Satisfies(item, inp.appliedFilters[f])

\* the filter lists that are a permutation of the applied one
FilterPermutations(filters) ==
    { [i \in 1..Len(filters) |-> filters[p[i]]] :
        p \in { q \in [1..Len(filters) -> 1..Len(filters)] :
                  \A i, j \in 1..Len(filters) : i # j => q[i] # q[j] } }

\* the results of the same evaluation under another filter list
ResultsWith(filters) ==
    { Evaluate(data, [inp EXCEPT !.appliedFilters = filters], out.searchTime,
               aFirst).out : aFirst \in BOOLEAN }

\* the results of the text search and the ranking without filters
Unfiltered == ResultsWith(<<>>)

\* C19: every record in results satisfies every applied filter that carries
\* a value (status: completed equals the value, also when it is false;
\* priority: priority equals the value), the records kept are in the order
\* the text search and the ranking gave them (the order of results when no
\* sort by name or date follows), and every permutation of appliedFilters
\* yields the same results in the same order.
C19_FilterConjunction ==
    out.kind = "ok" =>
        /\ \A i \in 1..Len(out.results) : SatisfiesAll(out.results[i])
        /\ inp.sortBy = "relevance" =>
               \A base \in Unfiltered :
                   base.kind = "ok" =>
                       out.results = SelectSeq(base.results, SatisfiesAll)
        /\ \A filters \in FilterPermutations(inp.appliedFilters) :
               out \in ResultsWith(filters)

\* two different filters with values, one a status filter with the value
\* false, keep one record of two
C19_Witness ==
    /\ out.kind = "ok"
    /\ Len(inp.appliedFilters) = 2
    /\ inp.appliedFilters[1] = PriorityFilter("low")
    /\ inp.appliedFilters[2] = StatusFilter(FALSE)
    /\ Len(data) = 2
    /\ Len(out.results) = 1
    /\ ~SatisfiesAll(data[1])

-----------------------------------------------------------------------------
(* The basic search, src/hooks/useSearch.js *)

\* String(undefined) in a template literal
UndefinedText == <<"u", "n", "d", "e", "f", "i", "n", "e", "d">>

\* ${value} for a string or a missing value
TemplateText(value) == IF value.t = "string" THEN value.s ELSE UndefinedText

\* a searchable text made of the title alone
SearchableTitle(item) == toLowerCase(TemplateText(item.title))

\* `${task.title} ${task.description}`.toLowerCase()
SearchableText(item) ==
    toLowerCase(TemplateText(item.title) \o <<" ">>
                    \o TemplateText(item.description))

Priorities == {"high", "medium", "low"}

\* the status and priority filters
PassesFilter(item, f) ==
    IF f = "completed" THEN item.completed
    ELSE IF f = "pending" THEN ~item.completed
    ELSE IF f \in Priorities THEN item.priority = f
    ELSE TRUE

\* the filteredTasks memo
GetFilteredTasks(ts, term, f) ==
    SelectSeq(IF term # <<>>
              THEN SelectSeq(ts, LAMBDA item :
                                    includes(SearchableText(item), term))
              ELSE ts,
              LAMBDA item : PassesFilter(item, f))

TaskAb == Task(Str(Ab), Undefined, FALSE, "high", 1, "")
TaskBA == Task(Str(<<"b">>), Str(<<"A">>), TRUE, "low", 2, "")
TaskC == Task(Str(<<"c">>), Str(<<>>), FALSE, "low", 3, "")

\* the tasks given to the hook, ids by position
TaskLists ==
    { [i \in 1..Len(s) |-> [s[i] EXCEPT !.id = i]] :
        s \in { <<TaskAb, TaskBA, TaskC>>, <<TaskBA, TaskAb>> } }

SearchFilters == {"all", "completed", "pending", "low"}

\* the values typed into the search box
SearchTerms == {<<>>, <<"a">>, <<"A">>}

\* The hook after its first render: useDebounce has set its first timer.
InitSearch ==
    /\ searchTerm = <<>>
    /\ debouncedSearchTerm = <<>>
    /\ debounceTimerRef = 1
    /\ timers = RunEffect({}, 0, 1, <<>>, 0, 0)
    /\ now = 0
    /\ nextId = 2
    /\ mounted = TRUE
    /\ changeLog = <<>>
    /\ fireLog = <<>>
    /\ evalLog = <<>>
    /\ tasks \in TaskLists
    /\ taskFilter = "all"
    /\ filteredTasks = GetFilteredTasks(tasks, <<>>, "all")
    /\ ScoreIdle
    /\ EvalIdle
    /\ FnIdle
    /\ HistIdle
    /\ MailIdle
    /\ HookIdle

\* setSearchTerm(v): the hook debounces searchTerm.toLowerCase(), so the
\* effect of useDebounce runs again only when the lower-cased value changed
UseSearchSetSearchTerm(v) ==
    /\ mounted
    /\ v # searchTerm
    /\ Len(changeLog) < MaxChanges
    /\ searchTerm' = v
    /\ changeLog' = Append(changeLog,
            [value |-> v, at |-> now, pending |-> timers # {}])
    /\ IF toLowerCase(v) # toLowerCase(searchTerm)
       THEN /\ timers' = RunEffect(timers, debounceTimerRef, nextId,
                                   toLowerCase(v), now, Len(changeLog) + 1)
            /\ debounceTimerRef' = nextId
            /\ nextId' = nextId + 1
       ELSE UNCHANGED <<timers, debounceTimerRef, nextId>>
    /\ UNCHANGED <<debouncedSearchTerm, now, mounted, fireLog, evalLog,
                   taskVars>>

\* the timer of useDebounce fires and the hook renders with the new term
UseSearchTimerFire(t) ==
    /\ TimerFire(t)
    /\ filteredTasks' =
            GetFilteredTasks(tasks, debouncedSearchTerm', taskFilter)
    /\ UNCHANGED <<tasks, taskFilter>>

\* setFilter(f)
SetFilter(f) ==
    /\ mounted
    /\ f # taskFilter
    /\ taskFilter' = f
    /\ filteredTasks' = GetFilteredTasks(tasks, debouncedSearchTerm, f)
    /\ UNCHANGED <<tasks, debVars>>

SearchFrame ==
    UNCHANGED <<scoreVars, evalVars, fnVars, histVars, mailVars, hookVars>>

NextSearch ==
    \/ \E v \in SearchTerms : UseSearchSetSearchTerm(v) /\ SearchFrame
    \/ \E t \in timers : UseSearchTimerFire(t) /\ SearchFrame
    \/ \E f \in SearchFilters : SetFilter(f) /\ SearchFrame
    \/ Tick /\ UNCHANGED taskVars /\ SearchFrame
    \/ Unmount /\ UNCHANGED taskVars /\ SearchFrame

SpecSearch == InitSearch /\ [][NextSearch]_vars

-----------------------------------------------------------------------------
(* Claim C20, checked under SpecSearch *)

\* the text 'title description' of task i
TitleDescription(i) ==
    TemplateText(tasks[i].title) \o <<" ">>
        \o TemplateText(tasks[i].description)

\* the positions of the tasks whose text contains the term, whatever the case
\* of the text, and that pass the filter
Passing(term, f) ==
    { i \in 1..Len(tasks) :
        /\ \E k \in 0..(Len(TitleDescription(i)) - Len(term)) :
               \A c \in 1..Len(term) :
                   LowerChar(TitleDescription(i)[k + c]) = term[c]
        /\ \/ f = "all"
           \/ f = "completed" /\ tasks[i].completed
           \/ f = "pending" /\ ~tasks[i].completed
           \/ f = tasks[i].priority }

\* filteredTasks is the tasks at these positions, in the order of tasks
IsFiltered(term, f) ==
    /\ Len(filteredTasks) = Cardinality(Passing(term, f))
    /\ \A i \in Passing(term, f) :
           filteredTasks[Cardinality({j \in Passing(term, f) : j < i}) + 1]
               = tasks[i]

LastChange == changeLog[Len(changeLog)]

\* the delay has elapsed after the last setSearchTerm and no callback is
\* still due
DelayElapsed ==
    /\ mounted
    /\ changeLog # <<>>
    /\ now >= LastChange.at + Delay
    /\ \A t \in timers : t.due > now

\* the debounced term changes only to the lower-cased term of a
\* setSearchTerm whose delay has elapsed
ChangesAfterDelay ==
    debouncedSearchTerm' # debouncedSearchTerm =>
        \E i \in 1..Len(changeLog) :
            /\ changeLog[i].at + Delay <= now
            /\ debouncedSearchTerm' = toLowerCase(changeLog[i].value)

-----------------------------------------------------------------------------
(* The mail automation service, src/services/taskMailAutomation.js *)

\* if (emailLogs.length > 100)
StorageKeep == 100

\* cronInterval of the constructor, in minutes
DefaultInterval == 20

Email(id, type, ts) == [id |-> id, type |-> type, tasks |-> ts]

\* a log that never evicts
LogEmailNoShift(stored, email) == Append(stored, email)

\* logEmailToStorage: push, then shift when the list is longer than 100
LogEmailToStorage(stored, email) ==
    IF Len(Append(stored, email)) > StorageKeep
    THEN Tail(Append(stored, email))
    ELSE Append(stored, email)

\* sendMockEmail for each of the emails in turn: the session log and the
\* persistent log afterwards
RECURSIVE SendAll(_, _, _, _)
SendAll(session, stored, emails, i) ==
    IF i > Len(emails) THEN [emailLog |-> session, taskEmailLogs |-> stored]
    ELSE SendAll(Append(session, emails[i]),
                 LogEmailToStorage(stored, emails[i]), emails, i + 1)

\* the service after its constructor, localStorage without logs
InitService ==
    /\ intervalId = 0
    /\ isRunning = FALSE
    /\ cronInterval = DefaultInterval
    /\ emailLog = <<>>
    /\ taskEmailLogs = <<>>
    /\ intervals = {}
    /\ checkLog = <<>>
    /\ sent = 0

\* clearEmailLogs()
ClearEmailLogs ==
    /\ emailLog' = <<>>
    /\ taskEmailLogs' = <<>>
    /\ UNCHANGED <<intervalId, isRunning, cronInterval, intervals, appTasks,
                   checkLog, sent>>

MailFrame ==
    UNCHANGED <<scoreVars, evalVars, debVars, fnVars, histVars, taskVars,
                hookVars>>

-----------------------------------------------------------------------------
(* The email logs under many emails *)

MaxSent == 102

InitMailLog ==
    /\ InitService
    /\ appTasks = <<>>
    /\ ScoreIdle
    /\ EvalIdle
    /\ DebIdle
    /\ FnIdle
    /\ HistIdle
    /\ TaskIdle
    /\ HookIdle

\* sendMockEmail(emailData, onEmailSent)
SendMockEmail ==
    /\ sent < MaxSent
    /\ sent' = sent + 1
    /\ emailLog' =
            SendAll(emailLog, taskEmailLogs,
                    <<Email(sent + 1, "DAILY_SUMMARY", <<>>)>>, 1).emailLog
    /\ taskEmailLogs' =
            SendAll(emailLog, taskEmailLogs,
                    <<Email(sent + 1, "DAILY_SUMMARY", <<>>)>>, 1).taskEmailLogs
    /\ UNCHANGED <<intervalId, isRunning, cronInterval, intervals, appTasks,
                   checkLog>>

NextMailLog ==
    \/ SendMockEmail /\ MailFrame
    \/ ClearEmailLogs /\ MailFrame

SpecMailLog == InitMailLog /\ [][NextMailLog]_vars

\* the persistent log is the last emails of the session log, at most 100, in
\* the order they were sent
LastSent ==
    /\ Len(taskEmailLogs) = Min(Len(emailLog), StorageKeep)
    /\ \A i \in 1..Len(taskEmailLogs) :
           /\ taskEmailLogs[i]
                  = emailLog[Len(emailLog) - Len(taskEmailLogs) + i]
           /\ taskEmailLogs[i].id = sent - Len(taskEmailLogs) + i

\* a step that sends nothing is clearEmailLogs
ClearEmpties == sent' = sent => emailLog' = <<>> /\ taskEmailLogs' = <<>>

-----------------------------------------------------------------------------
(* Claim C22: the debounce under fair timers *)

\* the browser runs a timer that is due, and time passes
SpecDebounceFair ==
    /\ SpecDebounce
    /\ WF_vars(Tick /\ UNCHANGED <<scoreVars, evalVars, fnVars, histVars,
                                   taskVars, mailVars, hookVars>>)
    /\ WF_vars(\E t \in timers :
                  TimerFire(t) /\ UNCHANGED <<scoreVars, evalVars, fnVars,
                                              histVars, taskVars, mailVars,
                                              hookVars>>)

\* The debounced term changes in a step that leaves the raw term alone and
\* removes a timer, and its new value is the raw term, in lower case, that
\* has not changed for the delay.
TrailingOnly ==
    debouncedSearchTerm' # debouncedSearchTerm =>
        /\ searchTerm' = searchTerm
        /\ changeLog' = changeLog
        /\ \E t \in timers : timers' = timers \ {t}
        /\ changeLog # <<>>
        /\ changeLog[Len(changeLog)].value = searchTerm
        /\ changeLog[Len(changeLog)].at + Delay <= now
        /\ debouncedSearchTerm' = toLowerCase(searchTerm)

\* the raw term is v, the component is mounted and its timer falls within
\* the time modelled
Settling(v) ==
    /\ mounted
    /\ searchTerm = v
    /\ \A t \in timers : t.due <= MaxTime

Published(v) ==
    \/ debouncedSearchTerm = toLowerCase(v)
    \/ searchTerm # v
    \/ ~mounted

-----------------------------------------------------------------------------
(* The mail automation at work: src/services/taskMailAutomation.js under
   the calls of src/unnamed/part_000 and src/components/EmailNotifications.jsx,
   and the task list of src/TaskManager.jsx *)

MaxTasks == 1
MaxChecks == 2

\* how dueDate compares with the time of a check: the first task is past
\* its date, the second is due within 24 hours, later ones have no date
DueOf(id) == IF id = 1 THEN "overdue" ELSE IF id = 2 THEN "soon" ELSE "none"

\* customInterval: 0 for none, 2 minutes in development
CustomIntervals == {0, 2}

MailTask(id, completed, due) ==
    [id |-> id, completed |-> completed, due |-> due, priority |-> "high"]

PendingTasks(ts) == SelectSeq(ts, LAMBDA t : ~t.completed)

Draft(type, ts) == [type |-> type, tasks |-> ts]

DraftIf(cond, type, ts) == IF cond THEN <<Draft(type, ts)>> ELSE <<>>

\* checkAndNotify(tasks, onEmailSent): the emails it sends, in order; coin
\* is Math.random() > 0.7
CheckAndNotify(ts, coin) ==
    IF ts = <<>> THEN <<>>
    ELSE DraftIf(SelectSeq(PendingTasks(ts),
                           LAMBDA t : t.due = "overdue") # <<>>,
                 "OVERDUE_TASKS",
                 SelectSeq(PendingTasks(ts), LAMBDA t : t.due = "overdue"))
         \o DraftIf(SelectSeq(PendingTasks(ts),
                              LAMBDA t : t.due = "soon") # <<>>,
                    "DUE_SOON_TASKS",
                    SelectSeq(PendingTasks(ts), LAMBDA t : t.due = "soon"))
         \o DraftIf(/\ SelectSeq(PendingTasks(ts),
                                 LAMBDA t : t.priority = "High") # <<>>
                    /\ Len(PendingTasks(ts)) > 5,
                    "HIGH_PRIORITY_REMINDER",
                    SelectSeq(PendingTasks(ts),
                              LAMBDA t : t.priority = "High"))
         \o DraftIf(PendingTasks(ts) # <<>> /\ coin,
                    "DAILY_SUMMARY", PendingTasks(ts))

\* the mock emails of the drafts, numbered in send order
Numbered(drafts, from) ==
    [i \in 1..Len(drafts) |->
        Email(from + i, drafts[i].type, drafts[i].tasks)]

Checked(op, ts) == [op |-> op, checked |-> ts, current |-> appTasks]

\* one run of checkAndNotify on ts, noted in the log of checks
RunCheck(op, ts, coin) ==
    /\ emailLog' = SendAll(emailLog, taskEmailLogs,
                           Numbered(CheckAndNotify(ts, coin), sent),
                           1).emailLog
    /\ taskEmailLogs' = SendAll(emailLog, taskEmailLogs,
                                Numbered(CheckAndNotify(ts, coin), sent),
                                1).taskEmailLogs
    /\ sent' = sent + Len(CheckAndNotify(ts, coin))
    /\ checkLog' = Append(checkLog, Checked(op, ts))

\* the handle setInterval returns: one more than the handles given so far
NewIntervalId ==
    1 + Len(SelectSeq(checkLog, LAMBDA c : c.op = "start"))

\* a start that is never refused
NeverRunning == FALSE

\* if (this.isRunning) return
AlreadyRunning == isRunning

\* start(tasks, onEmailSent, customInterval)
Start(ts, custom, coin) ==
    /\ Len(checkLog) < MaxChecks
    /\ IF AlreadyRunning
       THEN /\ checkLog' = Append(checkLog, Checked("refused", <<>>))
            /\ UNCHANGED <<intervalId, isRunning, cronInterval, emailLog,
                           taskEmailLogs, intervals, sent>>
       ELSE /\ cronInterval' = IF custom # 0 THEN custom ELSE cronInterval
            /\ isRunning' = TRUE
            /\ RunCheck("start", ts, coin)
            /\ intervalId' = NewIntervalId
            /\ intervals' = intervals \cup
                   {[id |-> NewIntervalId, tasks |-> ts,
                     every |-> cronInterval']}
    /\ UNCHANGED appTasks

\* stop()
Stop ==
    /\ intervals' = IF intervalId # 0
                    THEN {t \in intervals : t.id # intervalId}
                    ELSE intervals
    /\ intervalId' = 0
    /\ isRunning' = FALSE
    /\ UNCHANGED <<cronInterval, emailLog, taskEmailLogs, appTasks,
                   checkLog, sent>>

\* the callback given to setInterval runs
IntervalFires(t, coin) ==
    /\ Len(checkLog) < MaxChecks
    /\ t \in intervals
    /\ RunCheck("interval", t.tasks, coin)
    /\ UNCHANGED <<intervalId, isRunning, cronInterval, intervals, appTasks>>

\* triggerNow(tasks, onEmailSent)
TriggerNow(ts, coin) ==
    /\ Len(checkLog) < MaxChecks
    /\ RunCheck("trigger", ts, coin)
    /\ UNCHANGED <<intervalId, isRunning, cronInterval, intervals, appTasks>>

ServiceUnchanged ==
    UNCHANGED <<intervalId, isRunning, cronInterval, emailLog,
                taskEmailLogs, intervals, checkLog, sent>>

\* handleAddTask: setTasks([newTask, ...tasks])
HandleAddTask ==
    /\ Len(appTasks) < MaxTasks
    /\ appTasks' = <<MailTask(Len(appTasks) + 1, FALSE,
                              DueOf(Len(appTasks) + 1))>> \o appTasks
    /\ ServiceUnchanged

\* handleToggleComplete(taskId)
HandleToggleComplete(i) ==
    /\ i \in 1..Len(appTasks)
    /\ appTasks' = [appTasks EXCEPT ![i].completed = ~appTasks[i].completed]
    /\ ServiceUnchanged

\* handleConfirmDelete: the newest task is the one deleted
HandleConfirmDelete ==
    /\ appTasks # <<>>
    /\ appTasks' = Tail(appTasks)
    /\ ServiceUnchanged

InitMail ==
    /\ InitService
    /\ appTasks = <<>>
    /\ ScoreIdle
    /\ EvalIdle
    /\ DebIdle
    /\ FnIdle
    /\ HistIdle
    /\ TaskIdle
    /\ HookIdle

NextMail ==
    \/ \E custom \in CustomIntervals, coin \in BOOLEAN :
           Start(appTasks, custom, coin) /\ MailFrame
    \/ Stop /\ MailFrame
    \/ \E t \in intervals, coin \in BOOLEAN :
           IntervalFires(t, coin) /\ MailFrame
    \/ \E coin \in BOOLEAN : TriggerNow(appTasks, coin) /\ MailFrame
    \/ HandleAddTask /\ MailFrame
    \/ \E i \in 1..MaxTasks : HandleToggleComplete(i) /\ MailFrame
    \/ HandleConfirmDelete /\ MailFrame

SpecMail == InitMail /\ [][NextMail]_vars

\* C26: every periodic check is computed from the task list as it is at the
\* time of the check, so a task added, completed or deleted after start is
\* reflected in the next periodic check.
C26_ChecksCurrentTasks ==
    \A i \in 1..Len(checkLog) :
        checkLog[i].op = "interval" =>
            checkLog[i].checked = checkLog[i].current

\* a step of start that found the service running
Refused ==
    /\ Len(checkLog') = Len(checkLog) + 1
    /\ checkLog'[Len(checkLog')].op = "refused"

\* C30: after any interleaving of start, stop and triggerNow at most one
\* interval timer is live, and isRunning is true exactly when one is live,
\* which intervalId then names; start while running changes nothing (no
\* immediate check, no second timer, cronInterval not replaced); stop
\* cancels the timer; triggerNow runs one check whether or not the service
\* is running.
C30_OneInterval ==
    /\ [](Cardinality(intervals) <= 1)
    /\ [](isRunning <=> intervals # {})
    /\ [](\A t \in intervals : t.id = intervalId)
    /\ [](intervals = {} => intervalId = 0)
    /\ [][Refused => UNCHANGED <<intervalId, isRunning, cronInterval,
                                 emailLog, taskEmailLogs, intervals,
                                 appTasks, sent>>]_vars
    /\ [][isRunning /\ ~isRunning' => intervals' = {}]_vars
    /\ [][Len(checkLog') = Len(checkLog) + 1
              /\ checkLog'[Len(checkLog')].op = "trigger"
          => /\ checkLog'[Len(checkLog')].checked = appTasks
             /\ UNCHANGED <<intervalId, isRunning, cronInterval,
                            intervals>>]_vars

\* a start was refused while the timer of the second start is live, after a
\* manual check on the stopped service
C30_Witness ==
    /\ Len(checkLog) = 2
    /\ checkLog[1].op = "start"
    /\ checkLog[2].op = "refused"
    /\ checkLog[2].current # checkLog[1].checked
    /\ isRunning
    /\ Cardinality(intervals) = 1
    /\ emailLog # <<>>

-----------------------------------------------------------------------------
(* Claim C24: the sort by name and by date *)

\* the same evaluation under sortBy = 'relevance'
UnderRelevance ==
    Evaluate(data, [inp EXCEPT !.sortBy = "relevance"], out.searchTime,
             TRUE).out

ByName ==
    /\ inp.sortBy = "name"
    /\ \E f \in 1..Len(inp.searchFields) : inp.searchFields[f] = "title"

SameRecords(rs, qs) ==
    /\ Len(rs) = Len(qs)
    /\ \A i \in 1..Len(rs) :
           Cardinality({j \in 1..Len(rs) : rs[j].id = rs[i].id})
               = Cardinality({j \in 1..Len(qs) : qs[j].id = rs[i].id})

AscendingTitles(rs) ==
    \A i, j \in 1..Len(rs) :
        i < j /\ ~BadTitle(rs[i]) /\ ~BadTitle(rs[j])
            => ~LocaleLess(rs[j].title.s, rs[i].title.s)

DescendingCreatedAt(rs) ==
    \A i, j \in 1..Len(rs) : i < j => rs[i].createdAt >= rs[j].createdAt

WithoutLimit(sortBy) ==
    Evaluate(data, [inp EXCEPT !.sortBy = sortBy, !.maxResults = Null],
             out.searchTime, FALSE).out

-----------------------------------------------------------------------------
(* multiFieldSearch applied to one input *)

\* strategy names outside the five of the literal
UnknownMatchTypes ==
    {"regex", "", "Exact", "isPrototypeOf"}
        \cup InheritedTruthy \cup InheritedRaising

MatchTerms == {<<>>, <<"a">>, <<"b">>, ab, <<"z">>}

InitMatch ==
    /\ fnArgs \in [item : [title : {Str(ab), Str(<<"b">>), Undefined},
                           description : DescriptionValues],
                   term : MatchTerms, fields : FieldLists,
                   matchType : KnownMatchTypes \cup UnknownMatchTypes]
    /\ fnOut = NotCalled
    /\ ScoreIdle
    /\ EvalIdle
    /\ DebIdle
    /\ HistIdle
    /\ TaskIdle
    /\ MailIdle
    /\ HookIdle

MultiFieldSearchCall ==
    /\ ~fnOut.done
    /\ fnOut' = [done |-> TRUE,
                 result |-> multiFieldSearch(fnArgs.item, fnArgs.term,
                                             fnArgs.fields, fnArgs.matchType)]
    /\ UNCHANGED <<fnArgs, scoreVars, evalVars, debVars, histVars, taskVars,
                   mailVars, hookVars>>

NextMatch == MultiFieldSearchCall

SpecMatch == InitMatch /\ [][NextMatch]_vars

\* C25: for every matchType that is not one of 'exact', 'substring', 'word',
\* 'fuzzy', 'prefix', and every record, term and field list, multiFieldSearch
\* returns the same outcome (match or no match, and the same first matching
\* field) as with matchType 'substring', and raises no error.
C25_UnknownIsSubstring ==
    fnOut.done /\ fnArgs.matchType \notin KnownMatchTypes =>
        /\ fnOut.result.kind # "raise"
        /\ fnOut.result = multiFieldSearch(fnArgs.item, fnArgs.term,
                                           fnArgs.fields, "substring")

-----------------------------------------------------------------------------
(* The text search under each match strategy *)

\* titles that tell the strategies apart for the terms 'a' and 'ab'
NestRecords ==
    { Task(Str(ab), Undefined, FALSE, "high", 1, ""),
      Task(Str(<<"a">>), Undefined, FALSE, "high", 2, ""),
      Task(Str(<<"b", "a">>), Str(ab), FALSE, "low", 3, ""),
      Task(Str(a_b), Undefined, TRUE, "low", 4, ""),
      Task(Str(b_a), Str(Ab), TRUE, "low", 5, "") }

NestData ==
    UNION {{[i \in 1..n |-> [s[i] EXCEPT !.id = i]] :
                s \in {t \in [1..n -> NestRecords] :
                         \A i, j \in 1..n : i # j => t[i] # t[j]}}
           : n \in 0..MaxRecords}

\* queries whose tokens are letters only
NestTerms == {<<"a">>, <<"b">>, ab, Ab, a_b}

NestInputs ==
    [term : NestTerms, searchFields : {<<"title">>, <<"title", "description">>},
     matchType : KnownMatchTypes, rankResults : BOOLEAN, maxResults : {Null},
     appliedFilters : {<<>>}, sortBy : {"relevance"}]

InitNest ==
    /\ inp \in NestInputs
    /\ data \in NestData
    /\ out = NoResult
    /\ ScoreIdle
    /\ DebIdle
    /\ FnIdle
    /\ HistIdle
    /\ TaskIdle
    /\ MailIdle
    /\ HookIdle

NextNest == EvaluateStep

SpecNest == InitNest /\ [][NextNest]_vars

\* the records of the result set
Ids(rs) == {rs[i].id : i \in 1..Len(rs)}

\* the result set of the same evaluation under another match strategy
Under(matchType) ==
    Evaluate(data, [inp EXCEPT !.matchType = matchType], out.searchTime,
             FALSE).out

\* C28: for fixed records, searchFields and a query whose tokens consist of
\* letters and digits only, with no filters and no maxResults, the result
\* set under 'exact' is a subset of the one under 'prefix', which is a
\* subset of the one under 'substring', which is a subset of the one under
\* 'fuzzy', and the result set under 'word' is a subset of the one under
\* 'substring'.
C28_StrategiesNested ==
    Evaluated =>
        /\ out = Under(inp.matchType)
        /\ \A m \in KnownMatchTypes : Under(m).kind = "ok"
        /\ Ids(Under("exact").results) \subseteq Ids(Under("prefix").results)
        /\ Ids(Under("prefix").results)
               \subseteq Ids(Under("substring").results)
        /\ Ids(Under("substring").results)
               \subseteq Ids(Under("fuzzy").results)
        /\ Ids(Under("word").results)
               \subseteq Ids(Under("substring").results)

\* two records, of which 'exact' keeps none, 'prefix' the one that 'word'
\* does not keep, and 'substring' both
C28_Witness ==
    /\ Evaluated
    /\ inp.matchType = "prefix"
    /\ Len(data) = 2
    /\ Len(out.results) = 1
    /\ Under("exact").results = <<>>
    /\ Len(Under("substring").results) = 2
    /\ Len(Under("word").results) = 1
    /\ Under("word").results # out.results

-----------------------------------------------------------------------------
(* The ranking of a text search *)

a_dot == <<"a", ".">>

\* debounced terms of two tokens, a quoted phrase, and a term with a
\* character that is special in a pattern
RankTerms == {a_b, b_a, quoted_b_a, a_dot}

RankInputs ==
    [term : RankTerms, searchFields : {<<"title">>, <<"title", "description">>},
     matchType : {"substring", "word", "fuzzy"}, rankResults : {TRUE},
     maxResults : {Null}, appliedFilters : {<<>>}, sortBy : {"relevance"}]

InitRank ==
    /\ inp \in RankInputs
    /\ data \in DataSets
    /\ out = NoResult
    /\ ScoreIdle
    /\ DebIdle
    /\ FnIdle
    /\ HistIdle
    /\ TaskIdle
    /\ MailIdle
    /\ HookIdle

NextRank == EvaluateStep

SpecRank == InitRank /\ [][NextRank]_vars

\* the term, in lower case, occurs in one of the searchFields of the record
OccursInFields(item) ==
    \E f \in 1..Len(inp.searchFields) :
        /\ IsNonEmptyString(FieldOf(item, inp.searchFields[f]))
        /\ includes(toLowerCase(FieldOf(item, inp.searchFields[f]).s),
                    toLowerCase(inp.term))

\* C29: _searchScore is computed from the whole debounced term, including
\* its quote characters and the spaces between tokens, so a record that
\* passes the token filter gets score 0 whenever that raw string occurs in
\* none of its searchFields; when all surviving records score 0 the ranking
\* leaves them in input order.
C29_RankByRawTerm ==
    Evaluated /\ out.kind = "ok" =>
        /\ \A i \in 1..Len(out.results) :
               /\ out.results[i].scored
               /\ ~OccursInFields(out.results[i])
                      => out.results[i].searchScore = 0
        /\ (\A i \in 1..Len(out.results) : out.results[i].searchScore = 0)
               => \A i, j \in 1..Len(out.results) :
                      i < j => out.results[i].id < out.results[j].id

-----------------------------------------------------------------------------
(* The hook at work, src/hooks/useElasticSearch.js: the raw term, its
   debounce, the filters, the sort, the results and the suggestions *)

HookRecords ==
    << Task(Str(ab), Str(<<"b">>), FALSE, "high", 1, ""),
       Task(Str(<<"b", "a", "b">>), Undefined, TRUE, "low", 3, ""),
       Task(Str(<<"b">>), Str(ab), FALSE, "low", 2, "") >>

\* the caller's records, ids by position
HookData ==
    { [i \in 1..Len(s) |-> [s[i] EXCEPT !.id = i]] :
        s \in { HookRecords, <<HookRecords[3], HookRecords[1]>> } }

\* the options of the hook
HookConfigs ==
    { [matchType |-> "substring", rankResults |-> TRUE],
      [matchType |-> "prefix", rankResults |-> FALSE] }

HookTerms == {<<>>, ab, <<"b">>}

HookFilters == {StatusFilter(FALSE), PriorityFilter("low")}

\* the term the suggestions are computed from: the dependency list of the
\* memo names searchTerm
SuggestionTermDebounced(raw, debounced) == debounced

SuggestionTerm(raw, debounced) == raw

\* the term the results are computed from: the memo reads
\* debouncedSearchTerm
EvaluationTermRaw(raw, debounced) == raw

EvaluationTerm(raw, debounced) == debounced

\* the hook after its first render: no term, no filters, sortBy 'relevance',
\* and the first timer of useDebounce set
InitHook ==
    /\ searchTerm = <<>>
    /\ debouncedSearchTerm = <<>>
    /\ debounceTimerRef = 1
    /\ timers = {Timer(1, <<>>, Delay, 0)}
    /\ now = 0
    /\ nextId = 2
    /\ mounted = TRUE
    /\ changeLog = <<>>
    /\ fireLog = <<>>
    /\ evalLog = <<>>
    /\ data \in HookData
    /\ \E c \in HookConfigs :
           inp = [term |-> <<>>, searchFields |-> <<"title", "description">>,
                  matchType |-> c.matchType, rankResults |-> c.rankResults,
                  maxResults |-> Null, appliedFilters |-> <<>>,
                  sortBy |-> "relevance"]
    /\ out = ShortCircuit(data)
    /\ suggestions = <<>>
    /\ ScoreIdle
    /\ FnIdle
    /\ HistIdle
    /\ TaskIdle
    /\ MailIdle

\* the render after a change of the inputs of the results memo
Rerender(in) ==
    /\ inp' = in
    /\ \E elapsed \in 0..MaxElapsed :
           out' = Evaluate(data, in, elapsed, FALSE).out
    /\ UNCHANGED data

\* setSearchTerm(v): the suggestions memo runs in the render that follows,
\* and the effect of useDebounce replaces the timer
HookSetSearchTerm(v) ==
    /\ v # searchTerm
    /\ nextId <= MaxChanges + 1
    /\ searchTerm' = v
    /\ timers' = {t \in timers : t.id # debounceTimerRef}
                     \cup {Timer(nextId, v, now + Delay, nextId - 1)}
    /\ debounceTimerRef' = nextId
    /\ nextId' = nextId + 1
    /\ suggestions' = Suggestions(SuggestionTerm(v, debouncedSearchTerm),
                                  data, inp.searchFields)
    /\ UNCHANGED <<debouncedSearchTerm, now, mounted, changeLog, fireLog,
                   evalLog, evalVars>>

\* the timer of useDebounce runs setDebouncedValue(value); the clock is
\* left out here, so a pending timer runs at any later step
HookTimerFire(t) ==
    /\ t \in timers
    /\ timers' = timers \ {t}
    /\ debouncedSearchTerm' = t.value
    /\ IF t.value # debouncedSearchTerm
       THEN Rerender([inp EXCEPT
                        !.term = EvaluationTerm(searchTerm, t.value)])
       ELSE UNCHANGED evalVars
    /\ UNCHANGED <<searchTerm, debounceTimerRef, now, nextId, mounted,
                   changeLog, fireLog, evalLog, suggestions>>

HookUnchanged ==
    UNCHANGED <<debVars, suggestions>>

\* addFilter(filter)
AddFilter(f) ==
    /\ Len(inp.appliedFilters) < MaxFilters
    /\ Rerender([inp EXCEPT
                   !.appliedFilters = Append(inp.appliedFilters, f),
                   !.term = EvaluationTerm(searchTerm, debouncedSearchTerm)])
    /\ HookUnchanged

\* prev.filter((_, i) => i !== filterIndex), the index counted from 0
WithoutIndex(seq, k) ==
    IF k + 1 \in 1..Len(seq)
    THEN [i \in 1..(Len(seq) - 1) |-> IF i < k + 1 THEN seq[i] ELSE seq[i + 1]]
    ELSE seq

\* removeFilter(filterIndex)
RemoveFilter(k) ==
    /\ Rerender([inp EXCEPT
                   !.appliedFilters = WithoutIndex(inp.appliedFilters, k),
                   !.term = EvaluationTerm(searchTerm, debouncedSearchTerm)])
    /\ HookUnchanged

\* clearFilters()
ClearFilters ==
    /\ Rerender([inp EXCEPT
                   !.appliedFilters = <<>>,
                   !.term = EvaluationTerm(searchTerm, debouncedSearchTerm)])
    /\ HookUnchanged

\* setSortBy(s)
SetSortBy(s) ==
    /\ s # inp.sortBy
    /\ Rerender([inp EXCEPT
                   !.sortBy = s,
                   !.term = EvaluationTerm(searchTerm, debouncedSearchTerm)])
    /\ HookUnchanged

HookFrame == UNCHANGED <<scoreVars, fnVars, histVars, taskVars, mailVars>>

NextHook ==
    \/ \E v \in HookTerms : HookSetSearchTerm(v) /\ HookFrame
    \/ \E t \in timers : HookTimerFire(t) /\ HookFrame
    \/ \E f \in HookFilters : AddFilter(f) /\ HookFrame
    \/ \E k \in 0..(MaxFilters - 1) : RemoveFilter(k) /\ HookFrame
    \/ ClearFilters /\ HookFrame
    \/ \E s \in SortBys : SetSortBy(s) /\ HookFrame

SpecHook == InitHook /\ [][NextHook]_vars

-----------------------------------------------------------------------------
(* Claims C23 and C27, checked under SpecHook *)

\* C23: in every reachable state suggestions is the suggestion function
\* applied to the current raw searchTerm and the current records, also while
\* a debounce timer is pending and results still reflect an older debounced
\* term; a step that changes the filters, the sort or the results and leaves
\* the raw term alone leaves the suggestions alone.
C23_SuggestionsFromRawTerm ==
    /\ [](suggestions = Suggestions(searchTerm, data, inp.searchFields))
    /\ [][searchTerm' = searchTerm /\ data' = data
              => suggestions' = suggestions]_vars

\* a timer is pending, the results are those of the older term 'b', and the
\* suggestions are those of the raw term 'ab'
C23_Witness ==
    /\ timers # {}
    /\ searchTerm = ab
    /\ debouncedSearchTerm = <<"b">>
    /\ inp.term = <<"b">>
    /\ suggestions # <<>>
    /\ suggestions # Suggestions(debouncedSearchTerm, data, inp.searchFields)
    /\ inp.appliedFilters # <<>>

\* the results of the evaluation of the records, the term, the filters and
\* the sort of the state
ResultsFor(term, in) ==
    Evaluate(data, [in EXCEPT !.term = term], 0, FALSE).out.results

FilterOrSortChanges ==
    \/ inp'.appliedFilters # inp.appliedFilters
    \/ inp'.sortBy # inp.sortBy

\* C27: addFilter, removeFilter, clearFilters and setSortBy change the
\* published results in the same step, evaluated against the settled
\* debounced term and not the raw term, even while a debounce timer is
\* pending; they neither cancel nor restart the pending timer, which carries
\* the latest raw value; in every reachable state results equals the
\* evaluation of (records, debounced term, appliedFilters, sortBy).
C27_FiltersNotDebounced ==
    /\ [](out.kind = "ok" /\ out.results = ResultsFor(debouncedSearchTerm, inp))
    /\ [](\A t \in timers : t.value = searchTerm)
    /\ [][FilterOrSortChanges =>
              /\ timers' = timers
              /\ debounceTimerRef' = debounceTimerRef
              /\ searchTerm' = searchTerm
              /\ debouncedSearchTerm' = debouncedSearchTerm
              /\ out'.results = ResultsFor(debouncedSearchTerm, inp')]_vars

\* a filter was added and the sort changed while a timer is pending for the
\* raw term 'ab': the results are those of the debounced term 'b', which
\* differ from those of the raw term
C27_Witness ==
    /\ timers # {}
    /\ searchTerm = ab
    /\ debouncedSearchTerm = <<"b">>
    /\ Len(inp.appliedFilters) = 1
    /\ inp.sortBy = "recent"
    /\ out.results # <<>>
    /\ out.results # ResultsFor(searchTerm, inp)
====
